---- MODULE Spec2Model ----
(***************************************************************************)
(* Model of the fhevm-sdk core: the FhevmClient lifecycle (init,           *)
(* disconnect, reconnect), the guarded client operations with the          *)
(* encryption / decryption orchestrators behind them, and the decryption   *)
(* signature validity window.                                              *)
(***************************************************************************)
EXTENDS Integers, Sequences, FiniteSets, TLC

VARIABLES
    autoInit,         \* config.autoInit !== false
    status,           \* FhevmClient._status
    instance,         \* FhevmClient._instance: 0 = undefined, else id of the creation
    abortController,  \* FhevmClient._abortController: 0 = null, else controller id
    aborted,          \* controllers whose signal is aborted
    pending,          \* in-flight init() / reconnect() calls, one record each,
                      \* ordered by when the call began its current wait
    nextId,           \* number of init()/reconnect() calls started so far
    events,           \* events emitted by the last step, in order
    result,           \* promise / return outcome produced by the last step
    calls,            \* calls made on the remote instance by the last step
    input,            \* operation and arguments of the client call made by the last step
    now,              \* Math.floor(Date.now() / 1000)
    sig,              \* the decryption signature under observation
    sigResult,        \* last isSignatureValid(sig) outcome for that signature
    sigRemaining,     \* last getSignatureRemainingTime(sig) outcome for that signature
    builders,         \* the input builders the remote instance has handed out
    encCalls,         \* the encryptScalar / encryptBatch calls started, in order
    retry,            \* the retryOperation call under observation
    globalClient,     \* the module's globalClient: 0 = undefined, else a client
    second,           \* status of a second client, created with autoInit: false
    fmt,              \* the pair of failures last formatted for display
    deb,              \* one debounced function: its timer, calls and runs
    eventHandlers,    \* FhevmClient._eventHandlers: per event, the handlers in the order added
    unsubscribes,     \* the unsubscribe functions on() has returned
    hook,             \* a component that uses useDecrypt with enabled = true
    cache,            \* a MemoryCache, the clock it reads and its last call
    bq                \* a BatchQueue or EncryptionQueue: its items, timers and batches

vars == <<autoInit, status, instance, abortController, aborted, pending, nextId,
          events, result, calls, input, now, sig, sigResult, sigRemaining,
          builders, encCalls, retry, globalClient, second, fmt, deb, eventHandlers,
          unsubscribes, hook, cache, bq>>

clientVars == <<autoInit, status, instance, abortController, aborted, pending, nextId>>
sigVars == <<now, sig, sigResult, sigRemaining>>
encVars == <<builders, encCalls>>
utilVars == <<retry, globalClient, second, fmt, deb, eventHandlers, unsubscribes, hook, cache, bq>>

\* ---------------------------------------------------------------- bounds
MaxInits == 2
MaxOpsInits == 1
MaxBatch == 2
MaxClockDays == 3
MaxDurationDays == 2
MaxCalls == 2

\* ---------------------------------------------------------------- values
\* Arbitrary-precision magnitudes (bigint): little-endian base-256 limbs with
\* no leading zero limb; <<>> is 0.
Limb == 256

RECURSIVE normalize(_)
normalize(m) ==
    IF m = <<>> THEN m
    ELSE IF m[Len(m)] = 0 THEN normalize(SubSeq(m, 1, Len(m) - 1))
    ELSE m

\* 1n << BigInt(bits), bits a multiple of 8
shl1(bits) == [i \in 1..((bits \div 8) + 1) |-> IF i = (bits \div 8) + 1 THEN 1 ELSE 0]

\* m - 1n for m > 0
dec(m) ==
    LET j == CHOOSE i \in 1..Len(m) : m[i] # 0 /\ \A k \in 1..(i - 1) : m[k] = 0
    IN normalize([i \in 1..Len(m) |->
                    IF i < j THEN Limb - 1 ELSE IF i = j THEN m[i] - 1 ELSE m[i]])

\* a >= b on magnitudes, in the place of a > b
ge(a, b) ==
    \/ a = b
    \/ Len(a) > Len(b)
    \/ /\ Len(a) = Len(b)
       /\ \E i \in 1..Len(a) :
            /\ a[i] > b[i]
            /\ \A k \in (i + 1)..Len(a) : a[k] = b[k]

\* a > b on magnitudes
gt(a, b) ==
    \/ Len(a) > Len(b)
    \/ /\ Len(a) = Len(b)
       /\ \E i \in 1..Len(a) :
            /\ a[i] > b[i]
            /\ \A k \in (i + 1)..Len(a) : a[k] = b[k]

UintTypes == {"euint8", "euint16", "euint32", "euint64", "euint128", "euint256"}
BytesTypes == {"ebytes64", "ebytes128", "ebytes256"}
FheTypes == {"ebool", "eaddress"} \cup UintTypes \cup BytesTypes

\* parseInt(type.replace('euint', '')) and parseInt(type.replace('ebytes', ''))
typeBits(type) ==
    CASE type = "euint8" -> 8 [] type = "euint16" -> 16 [] type = "euint32" -> 32
      [] type = "euint64" -> 64 [] type = "euint128" -> 128 [] type = "euint256" -> 256
      [] type = "ebytes64" -> 64 [] type = "ebytes128" -> 128 [] type = "ebytes256" -> 256

\* A runtime value `val`.  k is typeof val ("null" for null/undefined).
\* b: the boolean.  isInt, neg, mag: what BigInt(val) yields (isInt FALSE when
\* it throws: a non-integer number, a non-numeric string).  pfx, len, hex: for
\* a string, whether it starts with '0x', how many characters follow (all
\* characters when there is no prefix) and whether those are all hex digits.
Val(k, b, isInt, neg, mag, pfx, len, hex) ==
    [k |-> k, b |-> b, isInt |-> isInt, neg |-> neg, mag |-> mag,
     pfx |-> pfx, len |-> len, hex |-> hex]

NullV == Val("null", FALSE, FALSE, FALSE, <<>>, FALSE, 0, FALSE)
BoolV(b) == Val("boolean", b, TRUE, FALSE, IF b THEN <<1>> ELSE <<>>, FALSE, 0, FALSE)
NumV(neg, mag) == Val("number", FALSE, TRUE, neg, mag, FALSE, 0, FALSE)
BigV(neg, mag) == Val("bigint", FALSE, TRUE, neg, mag, FALSE, 0, FALSE)
FloatV == Val("number", FALSE, FALSE, FALSE, <<>>, FALSE, 0, FALSE)
\* a decimal string such as "42": BigInt parses it; as hex text it has no prefix
DecStrV(mag) == Val("string", FALSE, TRUE, FALSE, mag, FALSE, 2, TRUE)
\* the string '0x' followed by len characters: 'ff..f' when hex, else not hex
HexStrV(len, hex) ==
    Val("string", FALSE, hex /\ len > 0, FALSE,
        IF hex THEN [i \in 1..((len + 1) \div 2) |->
                        IF i = (len + 1) \div 2 /\ len % 2 = 1 THEN 15 ELSE Limb - 1]
        ELSE <<>>,
        TRUE, len, hex)
\* a string without prefix that is not a number, e.g. "hello"
TextV == Val("string", FALSE, FALSE, FALSE, <<>>, FALSE, 5, FALSE)

\* An EncryptionValue as passed by the caller: form "null" is a value that is
\* not an object; type "" is a missing type.
EncV(type, val) == [type |-> type, val |-> val, form |-> "obj"]
NullEncV == [type |-> "", val |-> NullV, form |-> "null"]

\* The context bag of an error: which keys it has, and the entries that the
\* properties look at.
Ctx(keys, index, max, value) == [keys |-> keys, index |-> index, max |-> max, value |-> value]
NoCtx == Ctx({}, -1, <<>>, NullEncV)

\* ------------------------------------------------------- error taxonomy
INIT_FAILED == "INIT_1000"
ENCRYPTION_FAILED == "ENCRYPT_2000"
INVALID_INPUT_TYPE == "ENCRYPT_2001"
INVALID_VALUE == "ENCRYPT_2002"
DECRYPTION_FAILED == "DECRYPT_3000"
SIGNATURE_REQUIRED == "DECRYPT_3002"
SIGNATURE_EXPIRED == "DECRYPT_3003"
ACL_PERMISSION_DENIED == "DECRYPT_3005"
UNKNOWN_ERROR == "ERROR_9000"
OPERATION_ABORTED == "ERROR_9001"

FhevmErrorCode ==
    { "INIT_1000", "INIT_1001", "INIT_1002", "INIT_1003", "INIT_1004",
      "ENCRYPT_2000", "ENCRYPT_2001", "ENCRYPT_2002", "ENCRYPT_2003",
      "DECRYPT_3000", "DECRYPT_3001", "DECRYPT_3002", "DECRYPT_3003",
      "DECRYPT_3004", "DECRYPT_3005",
      "CONTRACT_4000", "CONTRACT_4001", "CONTRACT_4002", "CONTRACT_4003",
      "WALLET_5000", "WALLET_5001", "WALLET_5002",
      "NETWORK_6000", "NETWORK_6001", "NETWORK_6002", "NETWORK_6003",
      "STORAGE_7000", "STORAGE_7001", "STORAGE_7002",
      "ERROR_9000", "ERROR_9001", "ERROR_9002", "ERROR_9003" }

\* An error value.  cls is the runtime class ("FhevmError" = instanceof
\* FhevmError, "Error" = any other Error, "value" = a thrown non-Error), name
\* is error.name, code is the FhevmErrorCode ("" when the value has none), msg
\* is the message (or String(value)), ctx the context bag's distinguishing
\* entries, suggestion the suggestion ("" when there is none).
FhevmError(code, msg, ctx) ==
    [code |-> code, msg |-> msg, ctx |-> ctx, cls |-> "FhevmError",
     name |-> "FhevmError", has |-> {}, cause |-> <<>>, suggestion |-> ""]

RawError(name, msg, has) ==
    [code |-> "", msg |-> msg, ctx |-> NoCtx, cls |-> "Error", name |-> name,
     has |-> has, cause |-> <<>>, suggestion |-> ""]

RawValue(msg, has) ==
    [code |-> "", msg |-> msg, ctx |-> NoCtx, cls |-> "value", name |-> "",
     has |-> has, cause |-> <<>>, suggestion |-> ""]

\* the `cause` attached to a wrapping error: the wrapped error's identity
withCause(e, c) == [e EXCEPT !.cause = <<c.cls, c.name, c.code, c.msg>>]

NoThrow == [code |-> "", msg |-> "", ctx |-> NoCtx, cls |-> "none", name |-> "",
            has |-> {}, cause |-> <<>>, suggestion |-> ""]

\* the suggestions the code passes
NoInstanceSuggestion == "Call createFhevmClient() or wait for initialization to complete"
InitFailedSuggestion == "Check your network configuration and provider"
NotReadySuggestion == "Wait for initialization to complete or call init() manually"
EncryptionSuggestion ==
    "Check that your input values are valid and the FHEVM instance is initialized"
DecryptionSuggestion ==
    "Ensure you have proper ACL permissions and a valid EIP-712 signature"

createInitError(code, msg, suggestion) ==
    [FhevmError(code, msg, NoCtx) EXCEPT !.suggestion = suggestion]

createEncryptionError(msg, ctx) ==
    [FhevmError(ENCRYPTION_FAILED, msg, ctx) EXCEPT !.suggestion = EncryptionSuggestion]

createDecryptionError(msg, ctx) ==
    [FhevmError(DECRYPTION_FAILED, msg, ctx) EXCEPT !.suggestion = DecryptionSuggestion]

isFhevmError(e) == e.cls = "FhevmError"

\* Outcomes of a step: nothing settled, a value returned, an error thrown.
\* Outcome records: op is the operation whose promise settled (or which
\* returned), id the initialization it belongs to, via what the dynamic import
\* or the creation call did to end an init().
NoResult ==
    [op |-> "none", kind |-> "none", id |-> 0, via |-> "", err |-> NoThrow, out |-> <<>>, fields |-> <<>>]
Ok(op, id, via) ==
    [op |-> op, kind |-> "ok", id |-> id, via |-> via, err |-> NoThrow, out |-> <<>>, fields |-> <<>>]
Err(op, id, via, e) ==
    [op |-> op, kind |-> "err", id |-> id, via |-> via, err |-> e, out |-> <<>>, fields |-> <<>>]

\* guardedOperation(operation) applied to the outcome of operation()
\* guardedOperation that lets the error through as it is
guardedOperationRethrow(r) == r

guardedOperation(r) ==
    IF r.kind # "err" THEN r
    ELSE IF isFhevmError(r.err) THEN r
    ELSE [r EXCEPT !.err = withCause(FhevmError(UNKNOWN_ERROR, r.err.msg, NoCtx), r.err)]

\* ----------------------------------------------------------- validation
\* validateEncryptionValue(value): the error it throws, NoThrow when it returns
validateEncryptionValue(v) ==
    IF v.form = "null"
    THEN createEncryptionError("Invalid encryption value: must be an object with type and value",
                               Ctx({"value"}, -1, <<>>, v))
    ELSE IF v.type = ""
    THEN createEncryptionError("Missing FHE type in encryption value", Ctx({"value"}, -1, <<>>, v))
    ELSE IF v.val.k = "null"
    THEN createEncryptionError("Value cannot be null or undefined",
                               Ctx({"type", "value"}, -1, <<>>, v))
    ELSE IF v.type = "ebool"
    THEN IF v.val.k # "boolean"
         THEN createEncryptionError("Type mismatch: expected boolean",
                                    Ctx({"type", "value"}, -1, <<>>, v))
         ELSE NoThrow
    ELSE IF v.type \in UintTypes
    THEN IF ~v.val.isInt
         THEN RawError(IF v.val.k = "number" THEN "RangeError" ELSE "SyntaxError",
                       "Cannot convert to a BigInt", {})
         ELSE LET maxValue == dec(shl1(typeBits(v.type)))
              IN IF v.val.neg /\ v.val.mag # <<>>
                 THEN createEncryptionError("Value must be non-negative",
                                            Ctx({"type", "value"}, -1, <<>>, v))
                 ELSE IF gt(v.val.mag, maxValue)
                 THEN createEncryptionError("Value exceeds maximum",
                                            Ctx({"type", "value", "max"}, -1, maxValue, v))
                 ELSE NoThrow
    ELSE IF v.type = "eaddress"
    THEN IF v.val.k # "string"
         THEN createEncryptionError("Expected string", Ctx({"type", "value"}, -1, <<>>, v))
         ELSE IF ~(v.val.pfx /\ v.val.hex /\ v.val.len = 40)
         THEN createEncryptionError("Invalid Ethereum address format",
                                    Ctx({"type", "value", "expected", "got"}, -1, <<>>, v))
         ELSE NoThrow
    ELSE IF v.type \in BytesTypes
    THEN IF v.val.k # "string"
         THEN createEncryptionError("Expected hex string", Ctx({"type", "value"}, -1, <<>>, v))
         ELSE IF ~v.val.pfx
         THEN createEncryptionError("value must start with '0x' prefix",
                                    Ctx({"type", "value", "hint"}, -1, <<>>, v))
         ELSE IF ~v.val.hex
         THEN createEncryptionError("Invalid hex characters",
                                    Ctx({"type", "value", "hint"}, -1, <<>>, v))
         ELSE IF v.val.len # 2 * typeBits(v.type)
         THEN createEncryptionError("Invalid byte length",
                                    Ctx({"type", "expected", "actual", "hint"}, -1, <<>>, NullEncV))
         ELSE NoThrow
    ELSE createEncryptionError("Unknown FHE type", Ctx({"type"}, -1, <<>>, NullEncV))

\* validateUintValue(type, value) of validation.ts, v the pair of its arguments
validateUintValue(v) ==
    IF ~v.val.isInt
    THEN RawError(IF v.val.k = "number" THEN "RangeError" ELSE "SyntaxError",
                  "Cannot convert to a BigInt", {})
    ELSE LET maxValue == dec(shl1(typeBits(v.type)))
         IN IF v.val.neg /\ v.val.mag # <<>>
            THEN createEncryptionError("value must be non-negative",
                                       Ctx({"type", "value", "min", "hint"}, -1, <<>>, v))
            ELSE IF gt(v.val.mag, maxValue)
            THEN createEncryptionError("value exceeds maximum",
                                       Ctx({"type", "value", "max", "bits", "hint"}, -1, maxValue, v))
            ELSE NoThrow

\* a method map that sends every type to add8
getEncryptionMethodAdd8(type) == "add8"

\* getEncryptionMethod(type)
getEncryptionMethod(type) ==
    CASE type = "ebool" -> "addBool" [] type = "euint8" -> "add8"
      [] type = "euint16" -> "add16" [] type = "euint32" -> "add32"
      [] type = "euint64" -> "add64" [] type = "euint128" -> "add128"
      [] type = "euint256" -> "add256" [] type = "eaddress" -> "addAddress"
      [] type = "ebytes64" -> "addBytes64" [] type = "ebytes128" -> "addBytes128"
      [] type = "ebytes256" -> "addBytes256"

\* ---------------------------------------------------------- orchestrators
\* A call made on the remote instance (or on its input builder).
Call(fn, args) == [fn |-> fn, args |-> args]

\* What an orchestrator function does: returns out (and fields) or throws err,
\* having made the remote calls `calls`.
Returned(out, fields, cs) == [calls |-> cs, kind |-> "ok", err |-> NoThrow, out |-> out, fields |-> fields]
Thrown(e, cs) == [calls |-> cs, kind |-> "err", err |-> e, out |-> <<>>, fields |-> <<>>]

\* if (!instance) throw createInitError(...)
NoInstance ==
    Thrown(createInitError(INIT_FAILED, "FHEVM instance not initialized", NoInstanceSuggestion),
           <<>>)

\* How the remote side behaves during one operation: where it fails
\* (failAt "none": nowhere; "add": at the at-th append) and what it throws.
Script(failAt, at, err) == [err |-> err, failAt |-> failAt, at |-> at]

\* error instanceof Error && error.name === 'FhevmError'
namedFhevmError(e) == e.cls # "value" /\ e.name = "FhevmError"

\* encryptScalar(instance, contractAddress, userAddress, value)
encryptScalar(inst, value, rs) ==
    LET e == validateEncryptionValue(value)
        wrap(x) == IF namedFhevmError(x) THEN x
                   ELSE withCause(createEncryptionError("Failed to encrypt value",
                                     Ctx({"type", "value"}, -1, <<>>, value)), x)
        c1 == <<Call("createEncryptedInput", <<>>)>>
        method == getEncryptionMethod(value.type)
        c2 == Append(c1, Call(method, <<value>>))
        c3 == Append(c2, Call("encrypt", <<>>))
    IN IF ~inst THEN NoInstance
       ELSE IF e # NoThrow THEN Thrown(e, <<>>)
       ELSE IF rs.failAt = "create" THEN Thrown(wrap(rs.err), c1)
       ELSE IF rs.failAt = "nomethod"
       THEN Thrown(wrap(createEncryptionError("Encryption method not available on instance",
                                              Ctx({"method", "type"}, -1, <<>>, NullEncV))), c1)
       ELSE IF rs.failAt = "add" THEN Thrown(wrap(rs.err), c2)
       ELSE IF rs.failAt = "encrypt" THEN Thrown(wrap(rs.err), c3)
       ELSE Returned(<<value>>, <<>>, c3)

\* a validation loop that goes on after a failure and reports the last one
firstInvalidLast(values) ==
    IF \E i \in 1..Len(values) : validateEncryptionValue(values[i]) # NoThrow
    THEN CHOOSE i \in 1..Len(values) :
            /\ validateEncryptionValue(values[i]) # NoThrow
            /\ \A k \in (i + 1)..Len(values) : validateEncryptionValue(values[k]) = NoThrow
    ELSE 0

\* index (1-based) of the first value of the list that fails validation, 0 if none
firstInvalid(values) ==
    IF \E i \in 1..Len(values) : validateEncryptionValue(values[i]) # NoThrow
    THEN CHOOSE i \in 1..Len(values) :
            /\ validateEncryptionValue(values[i]) # NoThrow
            /\ \A k \in 1..(i - 1) : validateEncryptionValue(values[k]) = NoThrow
    ELSE 0

\* encryptBatch with each value validated only when it is about to be appended
encryptBatchLazy(inst, values, rs) ==
    LET bad == firstInvalid(values)
        c1 == <<Call("createEncryptedInput", <<>>)>>
        adds(n) == [i \in 1..n |-> Call("add", <<values[i]>>)]
    IN IF ~inst THEN NoInstance
       ELSE IF Len(values) = 0
       THEN Thrown(createEncryptionError("No values provided for encryption",
                                         Ctx({"count"}, -1, <<>>, NullEncV)), <<>>)
       ELSE IF bad # 0
       THEN Thrown(withCause(createEncryptionError("Validation failed for value at index",
                                Ctx({"index", "value"}, bad - 1, <<>>, values[bad])),
                             validateEncryptionValue(values[bad])), c1 \o adds(bad - 1))
       ELSE IF rs.failAt # "none" THEN Thrown(createEncryptionError("Failed to batch encrypt values",
                                         Ctx({"count"}, -1, <<>>, NullEncV)), c1)
       ELSE Returned(values, <<>>, Append(c1 \o adds(Len(values)), Call("encrypt", <<>>)))

\* encryptBatch(instance, contractAddress, userAddress, values)
encryptBatch(inst, values, rs) ==
    LET bad == firstInvalid(values)
        wrap(x) == IF namedFhevmError(x) THEN x
                   ELSE withCause(createEncryptionError("Failed to batch encrypt values",
                                     Ctx({"count"}, -1, <<>>, NullEncV)), x)
        c1 == <<Call("createEncryptedInput", <<>>)>>
        adds(n) == [i \in 1..n |-> Call(getEncryptionMethod(values[i].type), <<values[i]>>)]
        c3 == Append(c1 \o adds(Len(values)), Call("encrypt", <<>>))
    IN IF ~inst THEN NoInstance
       ELSE IF Len(values) = 0
       THEN Thrown(createEncryptionError("No values provided for encryption",
                                         Ctx({"count"}, -1, <<>>, NullEncV)), <<>>)
       ELSE IF bad # 0
       THEN Thrown(withCause(createEncryptionError("Validation failed for value at index",
                                Ctx({"index", "value"}, bad - 1, <<>>, values[bad])),
                             validateEncryptionValue(values[bad])), <<>>)
       ELSE IF rs.failAt = "create" THEN Thrown(wrap(rs.err), c1)
       ELSE IF rs.failAt = "add" /\ rs.at \in 1..Len(values)
       THEN Thrown(wrap(rs.err), c1 \o adds(rs.at))
       ELSE IF rs.failAt = "encrypt" THEN Thrown(wrap(rs.err), c3)
       ELSE Returned(values, <<>>, c3)

\* A struct argument: its fields in Object.keys order, each a <<name, value>>
\* pair; form "null" is a struct that is null or undefined.
Struct(fields) == [form |-> "obj", fields |-> fields]
NullStruct == [form |-> "null", fields |-> <<>>]

\* encryptStruct(instance, contractAddress, userAddress, struct)
encryptStruct(inst, struct, rs) ==
    IF struct.form = "null"
    THEN Thrown(RawError("TypeError", "Cannot convert undefined or null to object", {}), <<>>)
    ELSE LET fields == [i \in 1..Len(struct.fields) |-> struct.fields[i][1]]
             values == [i \in 1..Len(struct.fields) |-> struct.fields[i][2]]
             r == encryptBatch(inst, values, rs)
         IN IF r.kind = "err" THEN r ELSE Returned(r.out, fields, r.calls)

DaySeconds == 86400

\* isSignatureValid with the expiry second still counted as valid
isSignatureValidInclusive(s, t) == t <= s.startTimestamp + s.durationDays * DaySeconds

\* isSignatureValid(signature) evaluated when the clock reads t
isSignatureValid(s, t) == t < s.startTimestamp + s.durationDays * DaySeconds

\* getSignatureRemainingTime without the floor at 0
getSignatureRemainingTimeNoFloor(s, t) == s.startTimestamp + s.durationDays * DaySeconds - t

\* getSignatureRemainingTime(signature) evaluated when the clock reads t
getSignatureRemainingTime(s, t) ==
    LET expiresAt == s.startTimestamp + s.durationDays * DaySeconds
    IN IF expiresAt - t > 0 THEN expiresAt - t ELSE 0

NoRemaining == [value |-> 0, at |-> 0, known |-> FALSE]

\* A DecryptionSignature, or NoSig for an absent one (null / undefined).
Sig(start, days) == [startTimestamp |-> start, durationDays |-> days, present |-> TRUE]
NoSig == [startTimestamp |-> 0, durationDays |-> 0, present |-> FALSE]

ZeroHandle == "0x0000000000000000000000000000000000000000000000000000000000000000"

\* userDecrypt looking for "signature" in the remote message before "ACL" and
\* "permission"
userDecryptSignatureFirst(inst, requests, signature, t, rs) ==
    LET cs == <<Call("userDecrypt", requests)>>
    IN IF ~inst THEN NoInstance
       ELSE IF Len(requests) = 0
       THEN Thrown(createDecryptionError("No decryption requests provided",
                                         Ctx({"count"}, -1, <<>>, NullEncV)), <<>>)
       ELSE IF ~signature.present
       THEN Thrown(withCause(createDecryptionError("Decryption signature required", NoCtx),
                             RawError("Error", "DECRYPT_3002", {})), <<>>)
       ELSE IF ~isSignatureValid(signature, t)
       THEN Thrown(withCause(createDecryptionError("Decryption signature has expired",
                                Ctx({"expiresAt", "now"}, -1, <<>>, NullEncV)),
                             RawError("Error", "DECRYPT_3003", {})), <<>>)
       ELSE IF rs.failAt = "none" THEN Returned(requests, <<>>, cs)
       ELSE IF namedFhevmError(rs.err) THEN Thrown(rs.err, cs)
       ELSE IF "signature" \in rs.err.has
       THEN Thrown(withCause(createDecryptionError("Invalid or expired signature",
                        Ctx({"signature"}, -1, <<>>, NullEncV)), rs.err), cs)
       ELSE IF "ACL" \in rs.err.has \/ "permission" \in rs.err.has
       THEN Thrown(withCause(createDecryptionError(
                        "Access denied: You do not have permission to decrypt this value",
                        Ctx({"requests"}, -1, <<>>, NullEncV)), rs.err), cs)
       ELSE Thrown(withCause(createDecryptionError("Failed to decrypt value(s)",
                        Ctx({"count"}, -1, <<>>, NullEncV)), rs.err), cs)

\* userDecrypt without the local expiry check
userDecryptNoExpiry(inst, requests, signature, t, rs) ==
    LET cs == <<Call("userDecrypt", requests)>>
    IN IF ~inst THEN NoInstance
       ELSE IF Len(requests) = 0
       THEN Thrown(createDecryptionError("No decryption requests provided",
                                         Ctx({"count"}, -1, <<>>, NullEncV)), <<>>)
       ELSE IF ~signature.present
       THEN Thrown(createDecryptionError("Decryption signature required", NoCtx), <<>>)
       ELSE IF rs.failAt = "none" THEN Returned(requests, <<>>, cs)
       ELSE Thrown(createDecryptionError("Failed to decrypt value(s)",
                                         Ctx({"count"}, -1, <<>>, NullEncV)), cs)

\* userDecrypt(instance, requests, signature); requests as the list of handles
userDecrypt(inst, requests, signature, t, rs) ==
    LET cs == <<Call("userDecrypt", requests)>>
    IN IF ~inst THEN NoInstance
       ELSE IF Len(requests) = 0
       THEN Thrown(createDecryptionError("No decryption requests provided",
                                         Ctx({"count"}, -1, <<>>, NullEncV)), <<>>)
       ELSE IF ~signature.present
       THEN Thrown(withCause(createDecryptionError("Decryption signature required", NoCtx),
                             RawError("Error", "DECRYPT_3002", {})), <<>>)
       ELSE IF ~isSignatureValid(signature, t)
       THEN Thrown(withCause(createDecryptionError("Decryption signature has expired",
                                Ctx({"expiresAt", "now"}, -1, <<>>, NullEncV)),
                             RawError("Error", "DECRYPT_3003", {})), <<>>)
       ELSE IF rs.failAt = "none" THEN Returned(requests, <<>>, cs)
       ELSE IF namedFhevmError(rs.err) THEN Thrown(rs.err, cs)
       ELSE IF "ACL" \in rs.err.has \/ "permission" \in rs.err.has
       THEN Thrown(withCause(createDecryptionError(
                        "Access denied: You do not have permission to decrypt this value",
                        Ctx({"requests"}, -1, <<>>, NullEncV)), rs.err), cs)
       ELSE IF "signature" \in rs.err.has
       THEN Thrown(withCause(createDecryptionError("Invalid or expired signature",
                        Ctx({"signature"}, -1, <<>>, NullEncV)), rs.err), cs)
       ELSE Thrown(withCause(createDecryptionError("Failed to decrypt value(s)",
                        Ctx({"count"}, -1, <<>>, NullEncV)), rs.err), cs)

\* batchDecrypt(instance, handles, contractAddress, signature)
batchDecrypt(inst, handles, signature, t, rs) == userDecrypt(inst, handles, signature, t, rs)

\* a publicDecrypt that calls the instance a second time when the first call fails
publicDecryptRetry(inst, handle, rs) ==
    LET c == Call("publicDecrypt", <<handle>>)
    IN IF ~inst THEN NoInstance
       ELSE IF handle = "" \/ handle = ZeroHandle
       THEN Thrown(createDecryptionError("Invalid ciphertext handle",
                                         Ctx({"handle"}, -1, <<>>, NullEncV)), <<>>)
       ELSE IF rs.failAt = "none" THEN Returned(<<handle>>, <<>>, <<c>>)
       ELSE Returned(<<handle>>, <<>>, <<c, c>>)

\* publicDecrypt(instance, handle, contractAddress); "" is an empty handle
publicDecrypt(inst, handle, rs) ==
    IF ~inst THEN NoInstance
    ELSE IF handle = "" \/ handle = ZeroHandle
    THEN Thrown(createDecryptionError("Invalid ciphertext handle",
                                      Ctx({"handle"}, -1, <<>>, NullEncV)), <<>>)
    ELSE IF rs.failAt = "none" THEN Returned(<<handle>>, <<>>, <<Call("publicDecrypt", <<handle>>)>>)
    ELSE Thrown(withCause(createDecryptionError("Failed to publicly decrypt value",
                             Ctx({"handle", "contractAddress"}, -1, <<>>, NullEncV)), rs.err),
                <<Call("publicDecrypt", <<handle>>)>>)

\* generateDecryptionKeypair(instance)
generateDecryptionKeypair(inst, rs) ==
    IF ~inst THEN Thrown(createInitError(INIT_FAILED, "FHEVM instance not initialized", ""), <<>>)
    ELSE IF rs.failAt = "none" THEN Returned(<<"keypair">>, <<>>, <<Call("generateKeypair", <<>>)>>)
    ELSE Thrown(withCause(createDecryptionError("Failed to generate decryption keypair", NoCtx),
                          rs.err), <<Call("generateKeypair", <<>>)>>)

DefaultDurationDays == 365

\* createDecryptionEIP712(instance, publicKey, contractAddresses, startTimestamp?,
\* durationDays?); an omitted optional argument is -1
createDecryptionEIP712(inst, startTimestamp, durationDays, t, rs) ==
    LET timestamp == IF startTimestamp = -1 THEN t ELSE startTimestamp
        duration == IF durationDays = -1 THEN DefaultDurationDays ELSE durationDays
        cs == <<Call("createEIP712", <<timestamp, duration>>)>>
    IN IF ~inst THEN Thrown(createInitError(INIT_FAILED, "FHEVM instance not initialized", ""), <<>>)
       ELSE IF rs.failAt = "none" THEN Returned(<<timestamp, duration>>, <<>>, cs)
       ELSE Thrown(withCause(createDecryptionError(
                        "Failed to create EIP-712 message for decryption",
                        Ctx({"publicKey", "contractAddresses", "startTimestamp", "durationDays"},
                            -1, <<>>, NullEncV)), rs.err), cs)

\* ------------------------------------------------------ client lifecycle
NoInput == [op |-> "none", arg |-> <<>>]
Input(op, arg) == [op |-> op, arg |-> arg]

Event(ev, data) == [ev |-> ev, data |-> data]

\* _setStatus: the events it emits when the status moves from old to new
setStatusEvents(old, new) ==
    IF old # new THEN <<Event("statusChange", new)>> ELSE <<>>

isReady == status = "ready" /\ instance # 0

Pending(id, stage, caller, signal, err) ==
    [id |-> id, err |-> err, stage |-> stage, caller |-> caller, signal |-> signal]

NoErr == NoThrow

\* pending without its i-th record
Without(i) == SubSeq(pending, 1, i - 1) \o SubSeq(pending, i + 1, Len(pending))

\* Stages whose continuation is already queued as a microtask: the await in
\* reconnect() on disconnect(), the constructor's .catch handler, the await in
\* reconnect() on a settled init().  The other stages wait for the outside
\* world (the module import, the creation call).
QueuedStages == {"recon", "rejected", "resolved"}

\* The i-th pending call may take its next step: microtasks run in the order
\* they were queued, so nothing that began to wait after a queued continuation
\* can overtake it.
runnable(i) ==
    /\ i \in 1..Len(pending)
    /\ \A k \in 1..(i - 1) : pending[k].stage \notin QueuedStages

\* a head of init() that forgets _setStatus('initializing')
initStartKeepStatus(id, caller, st) ==
    /\ status' = st
    /\ abortController' = id
    /\ pending' = Append(pending, Pending(id, "import", caller, 0, NoErr))
    /\ events' = <<>>

\* The synchronous head of init(): lines 122-127, up to the first await.
initStart(id, caller, st) ==
    /\ status' = "initializing"
    /\ abortController' = id
    /\ pending' = Append(pending, Pending(id, "import", caller, 0, NoErr))
    /\ events' = setStatusEvents(st, "initializing")

\* State after the constructor has run.
InitClient ==
    /\ autoInit \in BOOLEAN
    /\ instance = 0
    /\ aborted = {}
    /\ result = NoResult
    /\ calls = <<>>
    /\ input = NoInput
    /\ IF autoInit
       THEN /\ status = "initializing"
            /\ abortController = 1
            /\ pending = <<Pending(1, "import", "auto", 0, NoErr)>>
            /\ nextId = 1
            /\ events = <<Event("statusChange", "initializing")>>
       ELSE /\ status = "idle"
            /\ abortController = 0
            /\ pending = <<>>
            /\ nextId = 0
            /\ events = <<>>

\* disconnect() that forgets _setStatus('disconnected')
disconnectKeepStatus ==
    /\ aborted' = IF abortController # 0 THEN aborted \cup {abortController} ELSE aborted
    /\ abortController' = 0
    /\ instance' = 0
    /\ status' = status
    /\ events' = <<Event("disconnected", "")>>

\* disconnect() that keeps the instance
disconnectNoClear ==
    /\ aborted' = IF abortController # 0 THEN aborted \cup {abortController} ELSE aborted
    /\ abortController' = 0
    /\ instance' = instance
    /\ status' = "disconnected"
    /\ events' = setStatusEvents(status, "disconnected") \o <<Event("disconnected", "")>>

\* disconnect(): abort and drop the controller, drop the instance, emit.
disconnectBody ==
    /\ aborted' = IF abortController # 0 THEN aborted \cup {abortController} ELSE aborted
    /\ abortController' = 0
    /\ instance' = 0
    /\ status' = "disconnected"
    /\ events' = setStatusEvents(status, "disconnected") \o <<Event("disconnected", "")>>

\* How the promise of an init() settles, by who is waiting for it.
settleInit(i, ok, e, via) ==
    LET p == pending[i]
    IN CASE p.caller = "init" ->
            /\ pending' = Without(i)
            /\ result' = IF ok THEN Ok("init", p.id, via) ELSE Err("init", p.id, via, e)
         [] p.caller = "auto" ->
            /\ pending' = IF ok THEN Without(i)
                          ELSE Append(Without(i), Pending(p.id, "rejected", "auto", p.signal, e))
            /\ result' = IF ok THEN Ok("autoInit", p.id, via) ELSE Err("autoInit", p.id, via, e)
         [] p.caller = "reconnect" ->
            /\ pending' = Append(Without(i),
                   Pending(p.id, IF ok THEN "resolved" ELSE "rejected", "reconnect", p.signal, e))
            /\ result' = NoResult

\* The catch block of init(), entered with the caught error e.
failInit(i, e, via) ==
    /\ status' = "error"
    /\ events' = setStatusEvents(status, "error") \o <<Event("error", e.name)>>
    /\ settleInit(i, FALSE,
          withCause(IF e.cls # "value" /\ e.name = "FhevmAbortError"
                    THEN createInitError(OPERATION_ABORTED, "Client initialization was aborted", "")
                    ELSE createInitError(INIT_FAILED, "Failed to initialize FHEVM client",
                                         InitFailedSuggestion), e),
          via)
    /\ UNCHANGED <<instance, abortController, aborted>>

\* init() called by the user
init ==
    /\ calls' = <<>>
    /\ input' = Input("init", <<>>)
    /\ IF status = "initializing"
       THEN /\ result' = Err("init", 0, "",
                    createInitError(INIT_FAILED, "Initialization already in progress", ""))
            /\ events' = <<>>
            /\ UNCHANGED <<status, instance, abortController, aborted, pending, nextId>>
       ELSE IF status = "ready"
       THEN /\ result' = Ok("init", 0, "")
            /\ events' = <<>>
            /\ UNCHANGED <<status, instance, abortController, aborted, pending, nextId>>
       ELSE /\ nextId < MaxInits
            /\ nextId' = nextId + 1
            /\ initStart(nextId + 1, "init", status)
            /\ result' = NoResult
            /\ UNCHANGED <<instance, aborted>>
    /\ UNCHANGED <<autoInit, sigVars, encVars, utilVars>>

\* init(): the dynamic import resolved (ok) or failed; on success the
\* creation call is issued with the current controller's signal.  Imports of
\* the one module settle in the order they were requested.
importDone(i, ok) ==
    /\ runnable(i) /\ pending[i].stage = "import"
    /\ \A k \in 1..(i - 1) : pending[k].stage # "import"
    /\ calls' = <<>>
    /\ input' = NoInput
    /\ IF ~ok THEN failInit(i, RawError("Error", "Cannot find module", {}), "import")
       ELSE IF abortController = 0
       THEN failInit(i, RawError("TypeError", "Cannot read properties of null", {}), "nosignal")
       ELSE /\ pending' = Append(Without(i),
                   Pending(pending[i].id, "create", pending[i].caller, abortController, NoErr))
            /\ events' = <<>>
            /\ result' = NoResult
            /\ UNCHANGED <<status, instance, abortController, aborted>>
    /\ UNCHANGED <<autoInit, nextId, sigVars, encVars, utilVars>>

\* What createFhevmInstance can do: return an instance, throw the abort
\* error (only once its signal is aborted), throw another Error, or throw a
\* value that is not an Error.
CreateOutcomes == {"instance", "abort", "error", "value"}

\* init(): the creation call settled.
createDone(i, outcome) ==
    /\ runnable(i) /\ pending[i].stage = "create"
    /\ outcome = "abort" => pending[i].signal \in aborted
    /\ calls' = <<>>
    /\ input' = NoInput
    /\ CASE outcome = "instance" ->
              IF abortController # 0 /\ abortController \in aborted
              THEN failInit(i, createInitError(OPERATION_ABORTED, "Initialization was aborted", ""),
                            outcome)
              ELSE /\ instance' = pending[i].id
                   /\ status' = "ready"
                   /\ events' = setStatusEvents(status, "ready") \o <<Event("connected", "network")>>
                   /\ settleInit(i, TRUE, NoErr, outcome)
                   /\ UNCHANGED <<abortController, aborted>>
         [] outcome = "abort" -> failInit(i, RawError("FhevmAbortError", "aborted", {}), outcome)
         [] outcome = "error" -> failInit(i, RawError("Error", "relayer unreachable", {}), outcome)
         [] outcome = "value" -> failInit(i, RawValue("relayer unreachable", {}), outcome)
    /\ UNCHANGED <<autoInit, nextId, sigVars, encVars, utilVars>>

\* constructor: the .catch handler of the auto-initialization
autoCatch(i) ==
    /\ runnable(i) /\ pending[i].caller = "auto" /\ pending[i].stage = "rejected"
    /\ status' = "error"
    /\ events' = setStatusEvents(status, "error") \o <<Event("error", pending[i].err.name)>>
    /\ pending' = Without(i)
    /\ result' = NoResult
    /\ calls' = <<>>
    /\ input' = NoInput
    /\ UNCHANGED <<autoInit, instance, abortController, aborted, nextId, sigVars, encVars, utilVars>>

\* disconnect() called by the user
disconnect ==
    /\ disconnectBody
    /\ result' = Ok("disconnect", 0, "")
    /\ calls' = <<>>
    /\ input' = Input("disconnect", <<>>)
    /\ UNCHANGED <<autoInit, pending, nextId, sigVars, encVars, utilVars>>

\* reconnect() called by the user: disconnect() runs, then the call awaits
reconnect ==
    /\ nextId < MaxInits
    /\ nextId' = nextId + 1
    /\ disconnectBody
    /\ pending' = Append(pending, Pending(nextId + 1, "recon", "reconnect", 0, NoErr))
    /\ result' = NoResult
    /\ calls' = <<>>
    /\ input' = Input("reconnect", <<>>)
    /\ UNCHANGED <<autoInit, sigVars, encVars, utilVars>>

\* reconnect(): after the await, _setStatus('idle') and the head of init()
reconnectCont(i) ==
    /\ runnable(i) /\ pending[i].stage = "recon"
    /\ status' = "initializing"
    /\ abortController' = pending[i].id
    /\ pending' = Append(Without(i), Pending(pending[i].id, "import", "reconnect", 0, NoErr))
    /\ events' = setStatusEvents(status, "idle") \o setStatusEvents("idle", "initializing")
    /\ result' = NoResult
    /\ calls' = <<>>
    /\ input' = NoInput
    /\ UNCHANGED <<autoInit, instance, aborted, nextId, sigVars, encVars, utilVars>>

\* reconnect(): its promise settles with the outcome of its init()
reconnectSettle(i) ==
    /\ runnable(i) /\ pending[i].caller = "reconnect"
    /\ pending[i].stage \in {"resolved", "rejected"}
    /\ pending' = Without(i)
    /\ result' = IF pending[i].stage = "resolved" THEN Ok("reconnect", pending[i].id, "")
                 ELSE Err("reconnect", pending[i].id, "", pending[i].err)
    /\ events' = <<>>
    /\ calls' = <<>>
    /\ input' = NoInput
    /\ UNCHANGED <<autoInit, status, instance, abortController, aborted, nextId, sigVars, encVars, utilVars>>

\* ------------------------------------------------------ client operations
T0 == 1700000000

ClientOps ==
    {"encrypt", "encryptBatch", "encryptStruct", "decrypt", "publicDecrypt",
     "generateKeypair", "createEIP712"}

\* a client method that forgets _assertReady()
clientOpNoAssert(op, arg, r, guarded) ==
    LET x == IF guarded THEN guardedOperation(r) ELSE r
    IN /\ input.op \notin ClientOps
       /\ input' = Input(op, arg)
       /\ result' = [op |-> op, kind |-> x.kind, id |-> 0, via |-> "", err |-> x.err,
                     out |-> x.out, fields |-> x.fields]
       /\ calls' = x.calls
       /\ events' = <<>>
       /\ UNCHANGED <<clientVars, sigVars, encVars, utilVars>>

\* _assertReady() followed by the operation: r is what the orchestrator
\* function does when it is reached, guarded says whether the method wraps it
\* in guardedOperation.  An operation leaves the client as it is, so a second
\* operation in a row reaches nothing the first does not: one operation is
\* explored between two steps of the lifecycle.
clientOp(op, arg, r, guarded) ==
    LET x == IF ~isReady
             THEN Thrown(createInitError(INIT_FAILED, "Client is not ready", NotReadySuggestion), <<>>)
             ELSE IF guarded THEN guardedOperation(r) ELSE r
    IN /\ input.op \notin ClientOps
       /\ input' = Input(op, arg)
       /\ result' = [op |-> op, kind |-> x.kind, id |-> 0, via |-> "", err |-> x.err,
                     out |-> x.out, fields |-> x.fields]
       /\ calls' = x.calls
       /\ events' = <<>>
       /\ UNCHANGED <<clientVars, sigVars, encVars, utilVars>>

\* what the remote side may throw
RemoteErrs ==
    { RawError("Error", "relayer failure", {}),
      RawError("FhevmError", "relayer failure", {}),
      RawValue("relayer failure", {}) }

DecryptErrs ==
    RemoteErrs \cup
    { RawError("Error", "denied", {"ACL"}), RawError("Error", "denied", {"permission"}),
      RawError("Error", "denied", {"signature"}), RawError("Error", "denied", {"ACL", "signature"}),
      RawError("Error", "denied", {"permission", "signature"}),
      RawError("FhevmError", "denied", {"ACL"}),
      RawValue("denied", {"signature"}), RawValue("denied", {"ACL"}) }

NoFail == Script("none", 0, NoThrow)

ScalarScripts ==
    {NoFail} \cup {Script(f, 0, e) : f \in {"create", "add", "encrypt"}, e \in RemoteErrs}
             \cup {Script("nomethod", 0, NoThrow)}

BatchScripts(n) ==
    {NoFail} \cup {Script(f, 0, e) : f \in {"create", "encrypt"}, e \in RemoteErrs}
             \cup {Script("add", i, e) : i \in 1..n, e \in RemoteErrs}

CallScripts(errs) == {NoFail} \cup {Script("call", 0, e) : e \in errs}

Num(n) == NumV(FALSE, IF n = 0 THEN <<>> ELSE <<n>>)

\* the plaintext inputs tried, one or more per branch of the validator
EncValues ==
    { NullEncV, EncV("", Num(1)), EncV("euint512", Num(1)), EncV("euint8", NullV),
      EncV("ebool", BoolV(TRUE)), EncV("ebool", Num(1)),
      EncV("euint8", Num(0)), EncV("euint8", NumV(TRUE, <<1>>)), EncV("euint8", FloatV),
      EncV("euint8", TextV), EncV("euint8", DecStrV(<<42>>)), EncV("euint8", BoolV(TRUE)),
      EncV("eaddress", HexStrV(40, TRUE)), EncV("eaddress", HexStrV(39, TRUE)),
      EncV("eaddress", HexStrV(40, FALSE)), EncV("eaddress", Num(1)), EncV("eaddress", TextV),
      EncV("ebytes64", HexStrV(128, TRUE)), EncV("ebytes64", HexStrV(127, TRUE)),
      EncV("ebytes64", HexStrV(128, FALSE)), EncV("ebytes64", TextV), EncV("ebytes64", Num(1)),
      EncV("ebytes128", HexStrV(256, TRUE)), EncV("ebytes128", HexStrV(128, TRUE)),
      EncV("ebytes256", HexStrV(512, TRUE)), EncV("ebytes256", HexStrV(256, TRUE)) }
    \cup { EncV(t, BigV(FALSE, dec(shl1(typeBits(t))))) : t \in UintTypes }
    \cup { EncV(t, BigV(FALSE, shl1(typeBits(t)))) : t \in UintTypes }

BatchValues ==
    { EncV("euint32", Num(100)), EncV("ebool", BoolV(TRUE)),
      EncV("euint8", NumV(FALSE, <<0, 1>>)), EncV("euint8", FloatV) }

SeqsUpTo(S, n) == UNION {[1..k -> S] : k \in 0..n}

FieldNames == <<"a", "b", "c", "d">>

Handles == {ZeroHandle, "0xh1"}

DecryptSigs(t) ==
    {NoSig, Sig(t, DefaultDurationDays), Sig(t - 400 * DaySeconds, DefaultDurationDays), Sig(t, 0)}

\* the inputs tried through the client
ClientValues == {EncV("euint32", Num(42)), EncV("euint8", NumV(FALSE, <<0, 1>>)), EncV("euint8", FloatV)}
ClientBatchValues == {EncV("euint32", Num(42)), EncV("euint8", NumV(FALSE, <<0, 1>>))}
ClientScripts == {NoFail} \cup {Script("encrypt", 0, e) : e \in RemoteErrs}
ClientSigs(t) == {NoSig, Sig(t, DefaultDurationDays), Sig(t - 400 * DaySeconds, DefaultDurationDays)}
ClientDecryptErrs == RemoteErrs \cup {RawError("Error", "denied", {"ACL"})}

\* FhevmClient.encrypt
clientEncrypt ==
    \E v \in ClientValues : \E rs \in ClientScripts \cup {Script("nomethod", 0, NoThrow)} :
        clientOp("encrypt", v, encryptScalar(TRUE, v, rs), TRUE)

\* FhevmClient.encryptBatch
clientEncryptBatch ==
    \E vs \in SeqsUpTo(ClientBatchValues, MaxBatch) : \E rs \in ClientScripts :
        clientOp("encryptBatch", vs, encryptBatch(TRUE, vs, rs), TRUE)

\* FhevmClient.encryptStruct
clientEncryptStruct ==
    \/ clientOp("encryptStruct", NullStruct, encryptStruct(TRUE, NullStruct, NoFail), TRUE)
    \/ \E vs \in SeqsUpTo(ClientBatchValues, MaxBatch) : \E rs \in ClientScripts :
          LET st == Struct([i \in 1..Len(vs) |-> <<FieldNames[i], vs[i]>>])
          IN clientOp("encryptStruct", st, encryptStruct(TRUE, st, rs), TRUE)

\* FhevmClient.decrypt
clientDecrypt ==
    \E hs \in {<<>>, <<"0xh1">>, <<ZeroHandle>>} : \E sg \in ClientSigs(now) :
      \E rs \in CallScripts(ClientDecryptErrs) :
        clientOp("decrypt", [requests |-> hs, signature |-> sg],
                 userDecrypt(TRUE, hs, sg, now, rs), TRUE)

\* FhevmClient.publicDecrypt
clientPublicDecrypt ==
    \E h \in Handles \cup {""} : \E rs \in CallScripts(RemoteErrs) :
        clientOp("publicDecrypt", h, publicDecrypt(TRUE, h, rs), TRUE)

\* FhevmClient.generateKeypair
clientGenerateKeypair ==
    \E rs \in CallScripts(RemoteErrs) :
        clientOp("generateKeypair", <<>>, generateDecryptionKeypair(TRUE, rs), FALSE)

\* FhevmClient.createEIP712
clientCreateEIP712 ==
    \E st \in {-1, now} : \E d \in {-1, 1} : \E rs \in CallScripts(RemoteErrs) :
        clientOp("createEIP712", <<st, d>>, createDecryptionEIP712(TRUE, st, d, now, rs), FALSE)

Operations ==
    \/ clientEncrypt
    \/ clientEncryptBatch
    \/ clientEncryptStruct
    \/ clientDecrypt
    \/ clientPublicDecrypt
    \/ clientGenerateKeypair
    \/ clientCreateEIP712

\* --------------------------------------- direct calls of the orchestrators
\* A call of an exported orchestrator function; inst is whether the instance
\* argument is defined.  The orchestrators keep no state between calls, so
\* each behaviour is one call.
call(op, arg, r) ==
    /\ input = NoInput
    /\ input' = Input(op, arg)
    /\ result' = [op |-> op, kind |-> r.kind, id |-> 0, via |-> "", err |-> r.err,
                  out |-> r.out, fields |-> r.fields]
    /\ calls' = r.calls
    /\ events' = <<>>
    /\ UNCHANGED <<clientVars, sigVars, encVars, utilVars>>

callEncryptScalar ==
    \E inst \in BOOLEAN : \E v \in EncValues : \E rs \in ScalarScripts :
        call("encryptScalar", [value |-> v, inst |-> inst, remote |-> rs], encryptScalar(inst, v, rs))

callEncryptBatch ==
    \E inst \in BOOLEAN : \E vs \in SeqsUpTo(BatchValues, MaxBatch) :
      \E rs \in BatchScripts(Len(vs)) :
        call("encryptBatch", [inst |-> inst, values |-> vs, remote |-> rs], encryptBatch(inst, vs, rs))

callEncryptStruct ==
    \E inst \in BOOLEAN :
      \/ call("encryptStruct", [inst |-> inst, struct |-> NullStruct, remote |-> NoFail],
              encryptStruct(inst, NullStruct, NoFail))
      \/ \E vs \in SeqsUpTo(BatchValues, MaxBatch) : \E rs \in BatchScripts(Len(vs)) :
            LET st == Struct([i \in 1..Len(vs) |-> <<FieldNames[i], vs[i]>>])
            IN call("encryptStruct", [inst |-> inst, struct |-> st, remote |-> rs],
                    encryptStruct(inst, st, rs))

callUserDecrypt ==
    \E inst \in BOOLEAN : \E hs \in SeqsUpTo(Handles, MaxBatch) : \E sg \in DecryptSigs(now) :
      \E rs \in CallScripts(DecryptErrs) :
        call("userDecrypt", [inst |-> inst, requests |-> hs, signature |-> sg, remote |-> rs],
             userDecrypt(inst, hs, sg, now, rs))

callBatchDecrypt ==
    \E inst \in BOOLEAN : \E hs \in SeqsUpTo(Handles, MaxBatch) : \E sg \in DecryptSigs(now) :
      \E rs \in CallScripts(DecryptErrs) :
        call("batchDecrypt", [inst |-> inst, requests |-> hs, signature |-> sg, remote |-> rs],
             batchDecrypt(inst, hs, sg, now, rs))

callPublicDecrypt ==
    \E inst \in BOOLEAN : \E h \in Handles \cup {""} : \E rs \in CallScripts(RemoteErrs) :
        call("publicDecrypt", [inst |-> inst, handle |-> h, remote |-> rs], publicDecrypt(inst, h, rs))

OrchNext ==
    \/ callEncryptScalar
    \/ callEncryptBatch
    \/ callEncryptStruct
    \/ callUserDecrypt
    \/ callBatchDecrypt
    \/ callPublicDecrypt

\* ------------------------------------ encryption calls and their builders
\* An input builder of the remote instance: the values appended so far, each
\* with the method used, how many times encrypt() was called on it, and how
\* many appends came after an encrypt().
EmptyBuilder == [added |-> <<>>, finalized |-> 0, late |-> 0]

\* the builder after the calls cs were made on it, in order
RECURSIVE applyCalls(_, _)
applyCalls(b, cs) ==
    IF cs = <<>> THEN b
    ELSE LET c == Head(cs)
             nb == CASE c.fn = "createEncryptedInput" -> b
                     [] c.fn = "encrypt" -> [b EXCEPT !.finalized = @ + 1]
                     [] OTHER -> [b EXCEPT
                                    !.added = Append(@, [value |-> c.args[1], method |-> c.fn]),
                                    !.late = IF b.finalized > 0 THEN @ + 1 ELSE @]
         IN applyCalls(nb, Tail(cs))

\* what encrypt() of builder number n resolves with: one handle per appended
\* value, in the order of the appends
builderHandles(b, n) == [i \in 1..Len(b.added) |-> [builder |-> n, of |-> b.added[i].value]]

\* a call that appends to one builder kept for all calls
callBuilderShared(bs) == 1

\* the builder a call appends to: the one its own createEncryptedInput()
\* call has just returned
callBuilder(bs) == Len(bs) + 1

\* an orchestrator that keeps only the first handle of the remote result
encryptionResultFirst(handles) == SubSeq(handles, 1, 1)

\* { handles: result.handles, inputProof: result.inputProof }
encryptionResult(handles) == handles

\* the i-th value of the c-th call: the types alternate, the numbers differ
\* from call to call
StepValue(c, i) ==
    IF i % 2 = 1 THEN EncV("euint32", NumV(FALSE, <<10 * c + i>>))
    ELSE EncV("ebool", BoolV(c % 2 = 1))

\* the value lists tried for the c-th call: valid ones of each length, and
\* the same with the last value out of range
StepBatches(c) ==
    LET good(n) == [i \in 1..n |-> StepValue(c, i)]
        bad(n) == [i \in 1..n |-> IF i = n THEN EncV("euint8", NumV(FALSE, <<0, 1>>))
                                  ELSE StepValue(c, i)]
    IN {good(n) : n \in 0..MaxBatch} \cup {bad(n) : n \in 1..MaxBatch}

StepScripts ==
    {NoFail} \cup {Script(f, 1, RawError("Error", "relayer failure", {})) : f \in {"add", "encrypt"}}

EncCall(op, values, builder, stage, r) ==
    [op |-> op, kind |-> r.kind, err |-> r.err, values |-> values,
     handles |-> r.out, stage |-> stage, builder |-> builder]

\* The synchronous part of an encryptScalar / encryptBatch call on a defined
\* instance, up to its `await input.encrypt()`: r is what the whole call does
\* if nothing else runs in between, its calls go to the remote side now.
encStart(op, values, r) ==
    LET n == callBuilder(builders)
        old == IF n \in 1..Len(builders) THEN builders[n] ELSE EmptyBuilder
        nb == applyCalls(old, r.calls)
        awaits == r.calls # <<>> /\ r.calls[Len(r.calls)].fn = "encrypt"
    IN /\ Len(encCalls) < MaxCalls
       /\ builders' = IF r.calls = <<>> THEN builders
                      ELSE IF n \in 1..Len(builders) THEN [builders EXCEPT ![n] = nb]
                      ELSE Append(builders, nb)
       /\ encCalls' = Append(encCalls,
              IF awaits THEN EncCall(op, values, n, "await", [r EXCEPT !.out = <<>>])
              ELSE EncCall(op, values, IF r.calls = <<>> THEN 0 ELSE n, "done", r))
       /\ UNCHANGED <<clientVars, sigVars, events, result, calls, input, utilVars>>

encryptScalarStart ==
    \E rs \in StepScripts :
        LET v == StepValue(Len(encCalls) + 1, 1)
        IN encStart("encryptScalar", <<v>>, encryptScalar(TRUE, v, rs))

encryptBatchStart ==
    \E vs \in StepBatches(Len(encCalls) + 1) : \E rs \in StepScripts :
        encStart("encryptBatch", vs, encryptBatch(TRUE, vs, rs))

\* The awaited encrypt() of the i-th call settles and the call returns: with
\* the handles the builder gives when it resolves, with the wrapped error when
\* it rejects.
encFinish(i) ==
    /\ encCalls[i].stage = "await"
    /\ encCalls' = [encCalls EXCEPT ![i] =
          IF encCalls[i].kind = "err" THEN [encCalls[i] EXCEPT !.stage = "done"]
          ELSE [encCalls[i] EXCEPT
                  !.stage = "done",
                  !.handles = encryptionResult(
                      builderHandles(builders[encCalls[i].builder], encCalls[i].builder))]]
    /\ UNCHANGED <<clientVars, sigVars, builders, events, result, calls, input, utilVars>>

EncNext ==
    \/ encryptScalarStart
    \/ encryptBatchStart
    \/ \E i \in 1..Len(encCalls) : encFinish(i)

\* ------------------------------------------------ calls of the validators
\* 2^(8n) - 1 and 2^(8n) as magnitudes
ones(n) == [i \in 1..n |-> Limb - 1]
pow(n) == [i \in 1..(n + 1) |-> IF i = n + 1 THEN 1 ELSE 0]

\* the integers tried: 0, 1, and around the maximum of every width
IntMags ==
    {<<>>, <<1>>} \cup
    UNION {{ones(typeBits(t) \div 8), pow(typeBits(t) \div 8),
            [ones(typeBits(t) \div 8) EXCEPT ![1] = Limb - 2],
            [pow(typeBits(t) \div 8) EXCEPT ![1] = 1]} : t \in UintTypes}

IntVals == {NumV(neg, m) : neg \in BOOLEAN, m \in IntMags}
              \cup {BigV(neg, m) : neg \in BOOLEAN, m \in IntMags}

UintValues == {EncV(t, x) : t \in UintTypes, x \in IntVals}

\* values of the wrong runtime type for their FHE type
MistypedValues ==
    {EncV("ebool", Num(1)), EncV("ebool", TextV), EncV("eaddress", Num(1)),
     EncV("eaddress", BoolV(TRUE)), EncV("ebytes64", Num(1)), EncV("ebytes128", BoolV(TRUE)),
     EncV("ebytes256", BigV(FALSE, <<1>>))}

\* values of an unsigned type that BigInt() cannot convert
UnconvertibleValues == {EncV(t, x) : t \in UintTypes, x \in {FloatV, TextV}}

validated(op, v, e) ==
    /\ input = NoInput
    /\ input' = Input(op, v)
    /\ result' = [op |-> op, kind |-> IF e = NoThrow THEN "ok" ELSE "err", id |-> 0,
                  via |-> "", err |-> e, out |-> <<>>, fields |-> <<>>]
    /\ calls' = <<>>
    /\ events' = <<>>
    /\ UNCHANGED <<clientVars, sigVars, encVars, utilVars>>

callValidateEncryptionValue ==
    \E v \in EncValues \cup UintValues \cup MistypedValues \cup UnconvertibleValues :
        validated("validateEncryptionValue", v, validateEncryptionValue(v))

callValidateUintValue ==
    \E v \in UintValues \cup UnconvertibleValues :
        validated("validateUintValue", v, validateUintValue(v))

ValidateNext ==
    \/ callValidateEncryptionValue
    \/ callValidateUintValue

\* --------------------------------------------------------- retryOperation
MaxRetries == 3
DefaultMaxRetries == 3
DefaultDelayMs == 100

\* options.maxRetries, given or left out
RetryOptions ==
    {[v |-> 0, given |-> FALSE]} \cup {[v |-> m, given |-> TRUE] : m \in -1..MaxRetries}

\* Math.pow(2, n)
RECURSIVE pow2(_)
pow2(n) == IF n <= 0 THEN 1 ELSE 2 * pow2(n - 1)

\* A retryOperation call.  The k-th invocation of the operation resolves with
\* value k or rejects with error k; error 0 is `undefined`.  results holds the
\* outcome of every invocation that has settled (TRUE: resolved), onRetry the
\* <<attempt, error>> arguments of every onRetry call, delays every timer set.
NoRetry ==
    [value |-> 0, outcome |-> "none", phase |-> "idle", maxRetries |-> 0,
     backoff |-> FALSE, hasOnRetry |-> FALSE, attempt |-> 0, results |-> <<>>,
     onRetry |-> <<>>, delays |-> <<>>, lastError |-> 0, error |-> 0]

\* a loop that stops one attempt early
moreAttemptsExclusive(attempt, maxRetries) == attempt < maxRetries

\* the loop condition, attempt <= maxRetries
moreAttempts(attempt, maxRetries) == attempt <= maxRetries

\* the top of the for loop: invoke the operation and await it, or leave the
\* loop and throw lastError
iterate(r) ==
    IF moreAttempts(r.attempt, r.maxRetries)
    THEN [r EXCEPT !.phase = "awaiting"]
    ELSE [r EXCEPT !.phase = "done", !.outcome = "err", !.error = r.lastError]

\* retryOperation(operation, options) up to its first await
retryStart ==
    \E opt \in RetryOptions : \E backoff \in BOOLEAN : \E hasOnRetry \in BOOLEAN :
        /\ retry.phase = "idle"
        /\ retry' = iterate([NoRetry EXCEPT
                                !.maxRetries = IF opt.given THEN opt.v ELSE DefaultMaxRetries,
                                !.backoff = backoff, !.hasOnRetry = hasOnRetry])
        /\ UNCHANGED <<clientVars, sigVars, encVars, events, result, calls, input,
                    globalClient, second, fmt, deb, eventHandlers, unsubscribes, hook, cache,
                    bq>>

\* the awaited operation() settles
opSettle(ok) ==
    LET k == Len(retry.results) + 1
        r == [retry EXCEPT !.results = Append(@, ok)]
        delay == IF r.backoff THEN DefaultDelayMs * pow2(r.attempt) ELSE DefaultDelayMs
    IN /\ retry.phase = "awaiting"
       /\ retry' =
            IF ok THEN [r EXCEPT !.phase = "done", !.outcome = "ok", !.value = k]
            ELSE IF r.attempt < r.maxRetries
            THEN [r EXCEPT !.lastError = k,
                           !.onRetry = IF r.hasOnRetry THEN Append(@, <<r.attempt + 1, k>>) ELSE @,
                           !.delays = Append(@, delay),
                           !.phase = "delay"]
            ELSE iterate([r EXCEPT !.lastError = k, !.attempt = @ + 1])
       /\ UNCHANGED <<clientVars, sigVars, encVars, events, result, calls, input,
                    globalClient, second, fmt, deb, eventHandlers, unsubscribes, hook, cache,
                    bq>>

\* the setTimeout of the delay fires
retryTimer ==
    /\ retry.phase = "delay"
    /\ retry' = iterate([retry EXCEPT !.attempt = @ + 1])
    /\ UNCHANGED <<clientVars, sigVars, encVars, events, result, calls, input,
                    globalClient, second, fmt, deb, eventHandlers, unsubscribes, hook, cache,
                    bq>>

RetryNext ==
    \/ retryStart
    \/ \E ok \in BOOLEAN : opSettle(ok)
    \/ retryTimer

InitRetry == retry = NoRetry

\* ----------------------------------------------------- errors on display
\* A displayed text, as the sequence of its parts.
\* a formatter that also prints the context bag
formatErrorMessageWithContext(e) ==
    IF isFhevmError(e) THEN <<"[", e.code, "] ", e.msg, " ", e.ctx>> ELSE <<e.msg>>

\* formatErrorMessage(error); the second part of the suggestion line stands
\* for its fixed prefix
formatErrorMessage(e) ==
    IF isFhevmError(e)
    THEN <<"[", e.code, "] ", e.msg>> \o
         (IF e.suggestion # "" THEN <<"Suggestion: ", e.suggestion>> ELSE <<>>)
    ELSE <<e.msg>>

NoFmt == [a |-> NoThrow, b |-> NoThrow, done |-> FALSE, outA |-> <<>>, outB |-> <<>>]

\* two encryptScalar calls fail, with the same remote behaviour, and the
\* caller formats both errors
formatFailures ==
    \E v1 \in EncValues : \E v2 \in EncValues : \E rs \in ScalarScripts :
        LET r1 == encryptScalar(TRUE, v1, rs)
            r2 == encryptScalar(TRUE, v2, rs)
        IN /\ ~fmt.done
           /\ r1.kind = "err" /\ r2.kind = "err"
           /\ fmt' = [a |-> r1.err, b |-> r2.err, done |-> TRUE,
                      outA |-> formatErrorMessage(r1.err), outB |-> formatErrorMessage(r2.err)]
           /\ UNCHANGED <<clientVars, sigVars, encVars, events, result, calls, input,
                          retry, globalClient, second, deb, eventHandlers, unsubscribes, hook,
                          cache, bq>>

FormatNext == formatFailures

InitFormat == fmt = NoFmt

\* ----------------------------------------------------------------- debounce
MaxDelay == 2
MaxDebCalls == 3
MaxDebClock == 5

DebArgs == {"x", "y"}

\* A debounced function.  delay 0: debounce() not called yet.  clock is the
\* time in ms, timer the closure's `timer` (0 = null, else a timer id),
\* scheduled the timers set and neither fired nor cleared, calls the calls of
\* the debounced function (when, with what, and the state of the promise
\* returned), runs the executions of the wrapped function.
NoDeb ==
    [calls |-> <<>>, delay |-> 0, clock |-> 0, timer |-> 0, nextTimer |-> 1,
     scheduled |-> {}, runs |-> <<>>]

\* a clearTimeout that cancels nothing
clearTimeoutNothing(scheduled, id) == scheduled

\* clearTimeout(id): no effect when that timer has fired already
clearTimeout(scheduled, id) == {t \in scheduled : t.id # id}

\* debounce(fn, delay)
debounceCreate ==
    \E d \in 1..MaxDelay :
        /\ deb.delay = 0
        /\ deb' = [deb EXCEPT !.delay = d]
        /\ UNCHANGED <<clientVars, sigVars, encVars, events, result, calls, input,
                       retry, globalClient, second, fmt, eventHandlers, unsubscribes, hook,
                       cache, bq>>

\* debounced(...args): the promise executor runs at once
debouncedCall ==
    \E a \in DebArgs :
        LET n == Len(deb.calls) + 1
            left == IF deb.timer # 0 THEN clearTimeout(deb.scheduled, deb.timer)
                    ELSE deb.scheduled
            t == [id |-> deb.nextTimer, call |-> n, due |-> deb.clock + deb.delay]
        IN /\ deb.delay # 0
           /\ n <= MaxDebCalls
           /\ deb.clock + deb.delay <= MaxDebClock
           /\ deb' = [deb EXCEPT !.scheduled = left \cup {t},
                                 !.timer = t.id,
                                 !.nextTimer = @ + 1,
                                 !.calls = Append(@, [args |-> a, at |-> deb.clock,
                                                      promise |-> "pending"])]
           /\ UNCHANGED <<clientVars, sigVars, encVars, events, result, calls, input,
                          retry, globalClient, second, fmt, eventHandlers, unsubscribes, hook,
                          cache, bq>>

\* a timer is due: its callback calls fn(...args) and awaits it.  Timers due
\* at the same time fire in the order they were set.
debounceFire ==
    \E t \in deb.scheduled :
        /\ t.due <= deb.clock
        /\ \A u \in deb.scheduled : u.due <= deb.clock => t.id <= u.id
        /\ deb' = [deb EXCEPT !.scheduled = @ \ {t},
                              !.runs = Append(@, [args |-> deb.calls[t.call].args, at |-> deb.clock,
                                                  call |-> t.call])]
        /\ UNCHANGED <<clientVars, sigVars, encVars, events, result, calls, input,
                       retry, globalClient, second, fmt, eventHandlers, unsubscribes, hook,
                       cache, bq>>

\* fn's promise settles: the callback resolves or rejects the promise of its call
debounceSettle(ok) ==
    \E i \in 1..Len(deb.runs) :
        LET c == deb.runs[i].call
        IN /\ deb.calls[c].promise = "pending"
           /\ deb' = [deb EXCEPT !.calls[c].promise = IF ok THEN "resolved" ELSE "rejected"]
           /\ UNCHANGED <<clientVars, sigVars, encVars, events, result, calls, input,
                          retry, globalClient, second, fmt, eventHandlers, unsubscribes, hook,
                          cache, bq>>

\* a millisecond passes; a timer that is due fires before time moves on
debounceTick ==
    /\ deb.delay # 0
    /\ deb.clock < MaxDebClock
    /\ \A t \in deb.scheduled : t.due > deb.clock
    /\ deb' = [deb EXCEPT !.clock = @ + 1]
    /\ UNCHANGED <<clientVars, sigVars, encVars, events, result, calls, input,
                   retry, globalClient, second, fmt, eventHandlers, unsubscribes, hook, cache,
                   bq>>

\* what happens without the caller: timers fire, fn settles, time passes
DebounceSteps ==
    \/ debounceFire
    \/ \E ok \in BOOLEAN : debounceSettle(ok)
    \/ debounceTick

DebounceNext ==
    \/ debounceCreate
    \/ debouncedCall
    \/ DebounceSteps

InitDebounce == deb = NoDeb

\* ------------------------------------------------------------ event handlers
ClientEventTypes == {"statusChange", "error", "connected", "disconnected"}

\* the handler functions, and the <<event, handler>> pairs the callers below
\* subscribe and unsubscribe with
Handlers == {"h1", "h2"}
Subscriptions == {<<"statusChange", "h1">>, <<"statusChange", "h2">>, <<"error", "h1">>}

NoHandlers == [e \in ClientEventTypes |-> <<>>]

\* Set.add: a handler already in the set keeps its place
addHandler(hs, h) == IF \E i \in 1..Len(hs) : hs[i] = h THEN hs ELSE Append(hs, h)

\* a removal that empties the event's set
deleteAllHandlers(hs, h) == <<>>

\* Set.delete
deleteHandler(hs, h) == SelectSeq(hs, LAMBDA x : x # h)

\* _emit(event, data): the handler calls it makes, in order
emit(ev) == [i \in 1..Len(eventHandlers[ev.ev]) |-> <<eventHandlers[ev.ev][i], ev.ev, ev.data>>]

\* on(event, handler), which returns an unsubscribe function
on ==
    \E p \in Subscriptions :
        /\ eventHandlers' = [eventHandlers EXCEPT ![p[1]] = addHandler(@, p[2])]
        /\ unsubscribes' = unsubscribes \cup {p}
        /\ input' = Input("on", p)
        /\ result' = Ok("on", 0, "")
        /\ events' = <<>>
        /\ calls' = <<>>
        /\ UNCHANGED <<clientVars, sigVars, encVars, retry, globalClient, second, fmt, deb, hook, cache,
            bq>>

\* off(event, handler)
off ==
    \E p \in Subscriptions :
        /\ eventHandlers' = [eventHandlers EXCEPT ![p[1]] = deleteHandler(@, p[2])]
        /\ input' = Input("off", p)
        /\ result' = Ok("off", 0, "")
        /\ events' = <<>>
        /\ calls' = <<>>
        /\ UNCHANGED <<clientVars, sigVars, encVars, retry, globalClient, second, fmt, deb,
                       unsubscribes, hook, cache, bq>>

\* a call of an unsubscribe function that on() returned
unsubscribe ==
    \E u \in unsubscribes :
        /\ eventHandlers' = [eventHandlers EXCEPT ![u[1]] = deleteHandler(@, u[2])]
        /\ input' = Input("unsubscribe", u)
        /\ result' = Ok("unsubscribe", 0, "")
        /\ events' = <<>>
        /\ calls' = <<>>
        /\ UNCHANGED <<clientVars, sigVars, encVars, retry, globalClient, second, fmt, deb,
                       unsubscribes, hook, cache, bq>>

HandlerOps ==
    \/ on
    \/ off
    \/ unsubscribe

InitEvents ==
    /\ eventHandlers = NoHandlers
    /\ unsubscribes = {}

\* ------------------------------------------------------------- useDecrypt
MaxParamChanges == 2
MaxHookStarts == 4

\* A mounted component calling useDecrypt({requests, signature, enabled: true})
\* with requests that are not empty.  params numbers the identities of
\* (requests, signature) the component has been rendered with; isDecrypting,
\* data and error are the hook's state as of the last render; queued holds the
\* values the setState calls since then will give them at the next render
\* (dirty: one is due); deps is the dependency array the effect last ran with;
\* inflight the decrypt() calls awaiting client.decrypt, started every
\* decrypt() call the effect has made with the dependencies that had changed.
NoHook ==
    [data |-> 0, error |-> 0, mounted |-> FALSE, params |-> 0, isDecrypting |-> FALSE,
     queued |-> [data |-> 0, error |-> 0, isDecrypting |-> FALSE], dirty |-> FALSE,
     deps |-> [params |-> 0, isDecrypting |-> FALSE], inflight |-> {}, started |-> <<>>]

\* which of the effect's dependencies differ from those of its last run;
\* decrypt changes exactly when requests or signature do
effectDepsChanged(h) ==
    (IF h.params # h.deps.params THEN {"params"} ELSE {})
        \cup (IF h.isDecrypting # h.deps.isDecrypting THEN {"isDecrypting"} ELSE {})

\* the effect body, run because the dependencies in `changed` changed:
\* if (enabled && requests && signature && !isDecrypting) decrypt(), and
\* decrypt() up to its await
runEffect(h, changed) ==
    LET ran == [h EXCEPT !.deps = [params |-> h.params, isDecrypting |-> h.isDecrypting]]
        id == Len(h.started) + 1
    IN IF h.isDecrypting THEN ran
       ELSE [ran EXCEPT !.started = Append(@, [params |-> h.params, changed |-> changed]),
                        !.inflight = @ \cup {id},
                        !.queued.isDecrypting = TRUE,
                        !.queued.error = 0,
                        !.dirty = TRUE]

\* a render commits the queued state, then the effect runs if a dependency changed
render(h) ==
    LET c == [h EXCEPT !.isDecrypting = h.queued.isDecrypting, !.data = h.queued.data,
                       !.error = h.queued.error, !.dirty = FALSE]
    IN IF effectDepsChanged(c) # {} THEN runEffect(c, effectDepsChanged(c)) ELSE c

\* the component mounts: first render, and the effect runs
hookMount ==
    /\ ~hook.mounted
    /\ hook' = runEffect([hook EXCEPT !.mounted = TRUE, !.params = 1], {"mount"})
    /\ UNCHANGED <<clientVars, sigVars, encVars, events, result, calls, input, retry,
                   globalClient, second, fmt, deb, eventHandlers, unsubscribes, cache, bq>>

\* a render caused by the hook's own setState calls
hookRender ==
    /\ hook.mounted /\ hook.dirty
    /\ hook' = render(hook)
    /\ UNCHANGED <<clientVars, sigVars, encVars, events, result, calls, input, retry,
                   globalClient, second, fmt, deb, eventHandlers, unsubscribes, cache, bq>>

\* the parent renders the component with new requests or a new signature
hookParamsChange ==
    /\ hook.mounted
    /\ hook.params <= MaxParamChanges
    /\ hook' = render([hook EXCEPT !.params = @ + 1])
    /\ UNCHANGED <<clientVars, sigVars, encVars, events, result, calls, input, retry,
                   globalClient, second, fmt, deb, eventHandlers, unsubscribes, cache, bq>>

\* client.decrypt settles: setData or setError, then setIsDecrypting(false)
hookSettle(ok) ==
    \E id \in hook.inflight :
        /\ Len(hook.started) < MaxHookStarts
        /\ hook' = [hook EXCEPT !.inflight = @ \ {id},
                                !.queued.data = IF ok THEN id ELSE @,
                                !.queued.error = IF ok THEN @ ELSE id,
                                !.queued.isDecrypting = FALSE,
                                !.dirty = TRUE]
        /\ UNCHANGED <<clientVars, sigVars, encVars, events, result, calls, input, retry,
                       globalClient, second, fmt, deb, eventHandlers, unsubscribes, cache, bq>>

HookNext ==
    \/ hookMount
    \/ hookRender
    \/ hookParamsChange
    \/ \E ok \in BOOLEAN : hookSettle(ok)

InitHook == hook = NoHook

\* ------------------------------------------------------------ MemoryCache
MaxCacheClock == 2
MaxHits == 1
DefaultTtl == 300000
DefaultMaxSize == 100

CacheKeys == {"a", "b", "c"}
CacheValues == {1, 2}
\* the options given to the constructor; 0 also stands for an option left out
TtlOptions == {0, 1}
MaxSizeOptions == {1, 2}
Undefined == 0

\* entries is the Map in insertion order.  access is not a field of CacheEntry:
\* it records the time of the entry's last set or successful get.  op, key and
\* ret are the last call, its key and what it returned.
NoCache ==
    [op |-> "none", clock |-> 0, made |-> FALSE, ttl |-> 0, maxSize |-> 0,
     entries |-> <<>>, key |-> "", ret |-> Undefined]

keyIndex(entries, k) ==
    IF \E i \in 1..Len(entries) : entries[i].key = k
    THEN CHOOSE i \in 1..Len(entries) : entries[i].key = k
    ELSE 0

removeAt(entries, i) ==
    [j \in 1..(Len(entries) - 1) |-> IF j < i THEN entries[j] ELSE entries[j + 1]]

\* an entry expires one millisecond late
isExpiredLate(c, entry) == c.clock - entry.timestamp > c.ttl + 1

isExpired(c, entry) == c.clock - entry.timestamp > c.ttl

\* the first entry, in insertion order, with the smallest timestamp; deleted
\* unless its key is the empty string (if (oldestKey))
evictLRU(entries) ==
    IF entries = <<>> THEN entries
    ELSE LET oldest == CHOOSE i \in 1..Len(entries) :
                          /\ \A j \in 1..Len(entries) : entries[i].timestamp <= entries[j].timestamp
                          /\ \A j \in 1..(i - 1) : entries[j].timestamp > entries[i].timestamp
         IN IF entries[oldest].key # "" THEN removeAt(entries, oldest) ELSE entries

\* Map.set: a key already present keeps its place
mapSet(entries, e) ==
    IF keyIndex(entries, e.key) # 0
    THEN [entries EXCEPT ![keyIndex(entries, e.key)] = e]
    ELSE Append(entries, e)

\* get(key) on cache c: the cache afterwards, with the value returned in ret
getBody(c, k) ==
    LET i == keyIndex(c.entries, k)
    IN IF i = 0 THEN [c EXCEPT !.ret = Undefined]
       ELSE IF isExpired(c, c.entries[i])
            THEN [c EXCEPT !.entries = removeAt(@, i), !.ret = Undefined]
            ELSE [c EXCEPT !.entries[i].hits = @ + 1, !.entries[i].access = c.clock,
                           !.ret = c.entries[i].value]

\* get would not take an entry's hits past the bound
HitsBelowBound(c, k) ==
    LET i == keyIndex(c.entries, k)
    IN i # 0 => (isExpired(c, c.entries[i]) \/ c.entries[i].hits < MaxHits)

cacheNew(ttl, maxSize) ==
    /\ ~cache.made
    /\ cache' = [NoCache EXCEPT !.made = TRUE,
                                !.ttl = IF ttl # 0 THEN ttl ELSE DefaultTtl,
                                !.maxSize = IF maxSize # 0 THEN maxSize ELSE DefaultMaxSize,
                                !.op = "new"]
    /\ UNCHANGED <<clientVars, sigVars, encVars, events, result, calls, input, retry,
                   globalClient, second, fmt, deb, eventHandlers, unsubscribes, hook, bq>>

cacheSet(k, v) ==
    /\ cache.made
    /\ LET room == IF Len(cache.entries) >= cache.maxSize THEN evictLRU(cache.entries)
                   ELSE cache.entries
       IN cache' = [cache EXCEPT !.entries = mapSet(room, [value |-> v, timestamp |-> cache.clock,
                                                           key |-> k, hits |-> 0,
                                                           access |-> cache.clock]),
                                 !.op = "set", !.key = k, !.ret = Undefined]
    /\ UNCHANGED <<clientVars, sigVars, encVars, events, result, calls, input, retry,
                   globalClient, second, fmt, deb, eventHandlers, unsubscribes, hook, bq>>

cacheGet(k) ==
    /\ cache.made
    /\ HitsBelowBound(cache, k)
    /\ cache' = [getBody(cache, k) EXCEPT !.op = "get", !.key = k]
    /\ UNCHANGED <<clientVars, sigVars, encVars, events, result, calls, input, retry,
                   globalClient, second, fmt, deb, eventHandlers, unsubscribes, hook, bq>>

cacheHas(k) ==
    /\ cache.made
    /\ HitsBelowBound(cache, k)
    /\ cache' = [getBody(cache, k) EXCEPT !.op = "has", !.key = k,
                                          !.ret = (getBody(cache, k).ret # Undefined)]
    /\ UNCHANGED <<clientVars, sigVars, encVars, events, result, calls, input, retry,
                   globalClient, second, fmt, deb, eventHandlers, unsubscribes, hook, bq>>

cacheDelete(k) ==
    /\ cache.made
    /\ cache' = [cache EXCEPT !.entries = IF keyIndex(@, k) # 0 THEN removeAt(@, keyIndex(@, k)) ELSE @,
                              !.op = "delete", !.key = k,
                              !.ret = (keyIndex(cache.entries, k) # 0)]
    /\ UNCHANGED <<clientVars, sigVars, encVars, events, result, calls, input, retry,
                   globalClient, second, fmt, deb, eventHandlers, unsubscribes, hook, bq>>

cacheClear ==
    /\ cache.made
    /\ cache' = [cache EXCEPT !.entries = <<>>, !.op = "clear", !.key = "", !.ret = Undefined]
    /\ UNCHANGED <<clientVars, sigVars, encVars, events, result, calls, input, retry,
                   globalClient, second, fmt, deb, eventHandlers, unsubscribes, hook, bq>>

cacheCleanup ==
    /\ cache.made
    /\ cache' = [cache EXCEPT !.entries = SelectSeq(@, LAMBDA e : ~isExpired(cache, e)),
                              !.op = "cleanup", !.key = "",
                              !.ret = Len(SelectSeq(cache.entries, LAMBDA e : isExpired(cache, e)))]
    /\ UNCHANGED <<clientVars, sigVars, encVars, events, result, calls, input, retry,
                   globalClient, second, fmt, deb, eventHandlers, unsubscribes, hook, bq>>

\* a millisecond passes
cacheTick ==
    /\ cache.made
    /\ cache.clock < MaxCacheClock
    /\ cache' = [cache EXCEPT !.clock = @ + 1, !.op = "tick", !.key = "", !.ret = Undefined]
    /\ UNCHANGED <<clientVars, sigVars, encVars, events, result, calls, input, retry,
                   globalClient, second, fmt, deb, eventHandlers, unsubscribes, hook, bq>>

CacheNext ==
    \/ \E ttl \in TtlOptions, maxSize \in MaxSizeOptions : cacheNew(ttl, maxSize)
    \/ \E k \in CacheKeys, v \in CacheValues : cacheSet(k, v)
    \/ \E k \in CacheKeys : cacheGet(k)
    \/ \E k \in CacheKeys : cacheHas(k)
    \/ \E k \in CacheKeys : cacheDelete(k)
    \/ cacheClear
    \/ cacheCleanup
    \/ cacheTick

InitCache == cache = NoCache

\* ------------------------------------------- BatchQueue and EncryptionQueue
MaxQueueAdds == 3
MaxQueueClock == 3

QueueKinds == {"BatchQueue", "EncryptionQueue"}
QueueDelays == {1, 2}
QueueSizes == {1, 2}

\* queue holds the numbers of the items waiting, timer is this.timer (0 = null),
\* scheduled the timeouts set and neither fired nor cleared.  items keeps, for
\* every add(), the time of the call and the state of its promise; batches
\* keeps every call of the batch function.
NoQueue ==
    [op |-> "none", kind |-> "none", delay |-> 0, clock |-> 0, timer |-> 0, nextTimer |-> 1,
     scheduled |-> {}, maxSize |-> 0, queue |-> <<>>, items |-> <<>>, batches |-> <<>>]

\* a size check that lets one item too many in
queueFullLate(len, maxSize) == len > maxSize

\* this.queue.length >= this.maxSize
queueFull(len, maxSize) == len >= maxSize

\* clearTimeout(this.timer), when this.timer is set
cleared(q) == {t \in q.scheduled : t.id # q.timer}

\* flush() up to its await, entered because of `via`.  BatchQueue clears the
\* timer first and looks at the queue second; EncryptionQueue returns on an
\* empty queue and otherwise forgets the timer without clearing it.
flush(q, via) ==
    LET b == Len(q.batches) + 1
        taken == [q EXCEPT !.queue = <<>>,
                           !.batches = Append(@, [via |-> via, at |-> q.clock,
                                                  stage |-> "await", items |-> q.queue]),
                           !.items = [i \in 1..Len(q.items) |->
                                        IF \E p \in 1..Len(q.queue) : q.queue[p] = i
                                        THEN [q.items[i] EXCEPT
                                                !.state = "inflight", !.batch = b,
                                                !.pos = CHOOSE p \in 1..Len(q.queue) : q.queue[p] = i]
                                        ELSE q.items[i]]]
    IN IF q.kind = "BatchQueue"
       THEN LET c == [q EXCEPT !.scheduled = cleared(q), !.timer = 0]
            IN IF q.queue = <<>> THEN c
               ELSE [taken EXCEPT !.scheduled = cleared(q), !.timer = 0]
       ELSE IF q.queue = <<>> THEN q
            ELSE [taken EXCEPT !.timer = 0]

queueCreate(kind, delay, maxSize) ==
    /\ bq.kind = "none"
    /\ bq' = [NoQueue EXCEPT !.kind = kind, !.delay = delay, !.maxSize = maxSize, !.op = "new"]
    /\ UNCHANGED <<clientVars, sigVars, encVars, events, result, calls, input, retry,
                   globalClient, second, fmt, deb, eventHandlers, unsubscribes, hook, cache>>

\* add(item): push, then flush if the queue is full, else set the timer anew
queueAdd ==
    LET n == Len(bq.items) + 1
        pushed == [bq EXCEPT !.queue = Append(@, n),
                             !.items = Append(@, [value |-> <<>>, at |-> bq.clock,
                                                  state |-> "queued", batch |-> 0, pos |-> 0])]
        t == [id |-> bq.nextTimer, due |-> bq.clock + bq.delay]
    IN /\ bq.kind # "none"
       /\ n <= MaxQueueAdds
       /\ bq.clock + bq.delay <= MaxQueueClock
       /\ bq' = [(IF queueFull(Len(pushed.queue), bq.maxSize) THEN flush(pushed, "size")
                  ELSE [pushed EXCEPT !.scheduled = cleared(pushed) \cup {t},
                                      !.timer = t.id,
                                      !.nextTimer = @ + 1])
                 EXCEPT !.op = "add"]
       /\ UNCHANGED <<clientVars, sigVars, encVars, events, result, calls, input, retry,
                   globalClient, second, fmt, deb, eventHandlers, unsubscribes, hook, cache>>

\* a timeout is due: flush().  Timeouts due together fire in the order set.
queueTimer ==
    \E t \in bq.scheduled :
        /\ t.due <= bq.clock
        /\ \A u \in bq.scheduled : u.due <= bq.clock => t.id <= u.id
        /\ bq' = [flush([bq EXCEPT !.scheduled = @ \ {t}], "timer") EXCEPT !.op = "timer"]
        /\ UNCHANGED <<clientVars, sigVars, encVars, events, result, calls, input, retry,
                   globalClient, second, fmt, deb, eventHandlers, unsubscribes, hook, cache>>

\* the batch function of batch b settles: its i-th result goes to the i-th
\* item of the batch, or its error to all of them
queueSettle(b, ok) ==
    /\ b \in 1..Len(bq.batches)
    /\ bq.batches[b].stage = "await"
    /\ bq' = [bq EXCEPT !.batches[b].stage = "done",
                        !.items = [i \in 1..Len(bq.items) |->
                                     IF bq.items[i].batch # b THEN bq.items[i]
                                     ELSE IF ok
                                     THEN [bq.items[i] EXCEPT !.state = "resolved",
                                                              !.value = <<b, bq.items[i].pos>>]
                                     ELSE [bq.items[i] EXCEPT !.state = "rejected"]],
                        !.op = "settle"]
    /\ UNCHANGED <<clientVars, sigVars, encVars, events, result, calls, input, retry,
                   globalClient, second, fmt, deb, eventHandlers, unsubscribes, hook, cache>>

\* EncryptionQueue.clear()
queueClear ==
    /\ bq.kind = "EncryptionQueue"
    /\ bq' = [bq EXCEPT !.scheduled = IF bq.timer # 0 THEN cleared(bq) ELSE @,
                        !.timer = 0,
                        !.queue = <<>>,
                        !.items = [i \in 1..Len(bq.items) |->
                                     IF bq.items[i].state = "queued"
                                     THEN [bq.items[i] EXCEPT !.state = "rejected"]
                                     ELSE bq.items[i]],
                        !.op = "clear"]
    /\ UNCHANGED <<clientVars, sigVars, encVars, events, result, calls, input, retry,
                   globalClient, second, fmt, deb, eventHandlers, unsubscribes, hook, cache>>

\* a millisecond passes; a timeout that is due fires before time moves on
queueTick ==
    /\ bq.kind # "none"
    /\ bq.clock < MaxQueueClock
    /\ \A t \in bq.scheduled : t.due > bq.clock
    /\ bq' = [bq EXCEPT !.clock = @ + 1, !.op = "tick"]
    /\ UNCHANGED <<clientVars, sigVars, encVars, events, result, calls, input, retry,
                   globalClient, second, fmt, deb, eventHandlers, unsubscribes, hook, cache>>

QueueSteps ==
    \/ queueTimer
    \/ \E b \in 1..Len(bq.batches) : \E ok \in BOOLEAN : queueSettle(b, ok)
    \/ queueTick

QueueNext ==
    \/ \E k \in QueueKinds, d \in QueueDelays, m \in QueueSizes : queueCreate(k, d, m)
    \/ queueAdd
    \/ queueClear
    \/ QueueSteps

InitQueue == bq = NoQueue

\* ------------------------------------------------------ the global client
\* The clients that may be stored: 1 is the client whose lifecycle is modelled
\* above, 2 a second client that nothing else uses.
Clients == {1, 2}

\* setGlobalClient(client)
setGlobalClient ==
    \E c \in Clients :
        /\ globalClient' = c
        /\ input' = Input("setGlobalClient", c)
        /\ result' = Ok("setGlobalClient", 0, "")
        /\ events' = <<>>
        /\ calls' = <<>>
        /\ UNCHANGED <<clientVars, sigVars, encVars, retry, second, fmt, deb, eventHandlers,
            unsubscribes, hook, cache, bq>>

\* getGlobalClient()
getGlobalClient ==
    /\ input' = Input("getGlobalClient", <<>>)
    /\ result' = [Ok("getGlobalClient", 0, "") EXCEPT !.out = <<globalClient>>]
    /\ events' = <<>>
    /\ calls' = <<>>
    /\ UNCHANGED <<clientVars, sigVars, encVars, retry, globalClient, second, fmt, deb,
            eventHandlers, unsubscribes, hook, cache, bq>>

\* a clearGlobalClient() that only drops the pointer
clearGlobalClientNoDisconnect ==
    /\ globalClient' = 0
    /\ input' = Input("clearGlobalClient", <<>>)
    /\ result' = Ok("clearGlobalClient", 0, "")
    /\ events' = <<>>
    /\ calls' = <<>>
    /\ UNCHANGED <<clientVars, sigVars, encVars, retry, second, fmt, deb, eventHandlers,
            unsubscribes, hook, cache, bq>>

\* clearGlobalClient(): globalClient?.disconnect(), then the pointer is dropped
clearGlobalClient ==
    /\ IF globalClient = 1
       THEN disconnectBody /\ UNCHANGED second
       ELSE /\ second' = IF globalClient = 2 THEN "disconnected" ELSE second
            /\ events' = <<>>
            /\ UNCHANGED <<status, instance, abortController, aborted>>
    /\ globalClient' = 0
    /\ input' = Input("clearGlobalClient", <<>>)
    /\ result' = Ok("clearGlobalClient", 0, "")
    /\ calls' = <<>>
    /\ UNCHANGED <<autoInit, pending, nextId, sigVars, encVars, retry, fmt, deb,
                   eventHandlers, unsubscribes, hook, cache, bq>>

GlobalOps ==
    \/ setGlobalClient
    \/ getGlobalClient
    \/ clearGlobalClient

InitGlobal ==
    /\ globalClient = 0
    /\ second = "idle"

InitSig ==
    /\ now = T0
    /\ sig = NoSig
    /\ sigResult = [at |-> 0, valid |-> "none"]
    /\ sigRemaining = NoRemaining

InitEnc ==
    /\ builders = <<>>
    /\ encCalls = <<>>

\* The sets the actions draw their inputs from, and the fixed records.  Init
\* compares them once: TLC brings every set and record to its normal form on
\* that comparison, in the one thread that computes the initial states, so the
\* workers that evaluate the actions only ever read them.
InputSets ==
    <<FheTypes, FhevmErrorCode, CreateOutcomes, RemoteErrs, DecryptErrs, ClientDecryptErrs,
      ScalarScripts, ClientScripts, StepScripts, EncValues, BatchValues, ClientValues,
      ClientBatchValues, Handles, IntVals, UintValues, MistypedValues, UnconvertibleValues,
      NoThrow, NoCtx, NoFail, NoSig, NoInput, NoResult, NoErr, NoRemaining, NullStruct,
      NullEncV, EmptyBuilder, RetryOptions, NoRetry, NoInstance, NoFmt, NoDeb, NoHandlers, NoHook, NoCache, NoQueue>>

\* a client just constructed, no signature made yet, no encryption started
Init == InitClient /\ InitSig /\ InitEnc /\ InitRetry /\ InitGlobal /\ InitFormat /\ InitDebounce
        /\ InitEvents /\ InitHook /\ InitCache /\ InitQueue
        /\ InputSets = InputSets

\* ------------------------------------------------- signature and the clock
\* the readings of the clock that are tried: each day boundary after T0, the
\* second before it and the second after it
ClockReadings == {T0 + k * DaySeconds + e : k \in 0..MaxClockDays, e \in {-1, 0, 1}}

\* the clock advances (it never goes back)
tick ==
    \E t \in ClockReadings :
        /\ t > now
        /\ now' = t
        /\ UNCHANGED <<clientVars, encVars, events, result, calls, input, sig, sigResult, sigRemaining, utilVars>>

\* a signature is created: startTimestamp is the current time unless the
\* caller passes an earlier one, durationDays as given
sign ==
    \E days \in 0..MaxDurationDays : \E back \in {0, DaySeconds} :
        /\ sig' = Sig(now - back, days)
        /\ sigResult' = [at |-> 0, valid |-> "none"]
        /\ sigRemaining' = NoRemaining
        /\ UNCHANGED <<clientVars, encVars, events, result, calls, input, now, utilVars>>

\* isSignatureValid(sig) is called
checkSignature ==
    /\ sig.present
    /\ sigResult' = [at |-> now,
                     valid |-> IF isSignatureValid(sig, now) THEN "valid" ELSE "invalid"]
    /\ UNCHANGED <<clientVars, encVars, events, result, calls, input, now, sig, sigRemaining, utilVars>>

\* getSignatureRemainingTime(sig) is called
readRemaining ==
    /\ sig.present
    /\ sigRemaining' = [value |-> getSignatureRemainingTime(sig, now), at |-> now,
                        known |-> TRUE]
    /\ UNCHANGED <<clientVars, encVars, events, result, calls, input, now, sig, sigResult, utilVars>>

SigNext ==
    \/ tick
    \/ sign
    \/ checkSignature
    \/ readRemaining

SpecSig == Init /\ [][SigNext]_vars

Lifecycle ==
    \/ init
    \/ disconnect
    \/ reconnect
    \/ \E i \in 1..Len(pending) : \E ok \in BOOLEAN : importDone(i, ok)
    \/ \E i \in 1..Len(pending) : \E o \in CreateOutcomes : createDone(i, o)
    \/ \E i \in 1..Len(pending) : autoCatch(i)
    \/ \E i \in 1..Len(pending) : reconnectCont(i)
    \/ \E i \in 1..Len(pending) : reconnectSettle(i)

SpecLifecycle == Init /\ [][Lifecycle]_vars

\* The client with its operations; the lifecycle is kept to MaxOpsInits
\* initializations so that the operations' inputs can be varied widely.
ClientNext ==
    \/ (Lifecycle /\ nextId' <= MaxOpsInits)
    \/ Operations

SpecClient == Init /\ [][ClientNext]_vars

\* The exported orchestrator functions called directly.
SpecOrch == Init /\ [][OrchNext]_vars

\* The validators called directly.
SpecValidate == Init /\ [][ValidateNext]_vars

\* Encryption calls running side by side on one instance.
SpecEnc == Init /\ [][EncNext]_vars

\* The global accessor used while the stored client lives its life.
GlobalNext ==
    \/ (Lifecycle /\ nextId' <= MaxOpsInits)
    \/ GlobalOps

SpecGlobal == Init /\ [][GlobalNext]_vars

\* Failures of encryptScalar formatted for display, two at a time.
SpecFormat == Init /\ [][FormatNext]_vars

\* The same, with timers that do fire and a wrapped function that does settle.
SpecDebounceFair == Init /\ [][DebounceNext]_vars /\ WF_vars(DebounceSteps)

\* One debounced function, called at any time.
SpecDebounce == Init /\ [][DebounceNext]_vars

\* Handlers subscribed and unsubscribed while the client lives its life.
EventsNext ==
    \/ (Lifecycle /\ nextId' <= MaxOpsInits)
    \/ HandlerOps

SpecEvents == Init /\ [][EventsNext]_vars

\* A queue under any adds, with timers that fire when due and batch functions
\* that settle.
SpecQueue == Init /\ [][QueueNext]_vars /\ WF_vars(QueueSteps)

\* A MemoryCache under any calls, with time passing.
SpecCache == Init /\ [][CacheNext]_vars

\* A component with useDecrypt, its renders and its decryptions.
SpecHook == Init /\ [][HookNext]_vars

\* retryOperation, with an operation that settles and timers that fire
SpecRetry == Init /\ [][RetryNext]_vars /\ WF_vars(RetryNext)

\* ================================================================ properties
Range(f) == {f[i] : i \in DOMAIN f}

\* C1: on a client that is not ready (whatever the status, or with no
\* instance) every operation fails with an INIT_FAILED FhevmError and makes no
\* call on the remote instance, whatever the value passed (valid or not).
C1_RejectedUnlessReady ==
    (input.op \in ClientOps /\ ~isReady) =>
        /\ result.op = input.op
        /\ result.kind = "err"
        /\ isFhevmError(result.err)
        /\ result.err.code = INIT_FAILED
        /\ calls = <<>>

\* an invalid value passed to encrypt on a client that is still initializing
C1_Witness ==
    /\ input.op = "encrypt"
    /\ status = "initializing"
    /\ validateEncryptionValue(input.arg) # NoThrow
    /\ result.err.code = INIT_FAILED

\* C2: encryptScalar and encryptBatch make no call on the remote instance or
\* its builder when a supplied value fails validation or the batch is empty.
C2_ValidationBeforeNetwork ==
    /\ (input.op = "encryptScalar" /\ validateEncryptionValue(input.arg.value) # NoThrow) =>
          (result.kind = "err" /\ calls = <<>>)
    /\ (input.op = "encryptBatch" /\
        (Len(input.arg.values) = 0 \/
         \E i \in 1..Len(input.arg.values) :
             validateEncryptionValue(input.arg.values[i]) # NoThrow)) =>
          (result.kind = "err" /\ calls = <<>>)

\* a batch on a defined instance whose first value is valid and whose second is not
C2_Witness ==
    /\ input.op = "encryptBatch"
    /\ input.arg.inst
    /\ Len(input.arg.values) = 2
    /\ validateEncryptionValue(input.arg.values[1]) = NoThrow
    /\ validateEncryptionValue(input.arg.values[2]) # NoThrow
    /\ result.kind = "err"
    /\ calls = <<>>

SigExpiredAt(s, t) == ~(t < s.startTimestamp + s.durationDays * DaySeconds)

\* C3: userDecrypt fails without calling the remote userDecrypt when the
\* request list is empty, the signature is absent or the signature is expired,
\* and reports the first of these that applies, in that order.
C3_LocalChecksInOrder ==
    (input.op = "userDecrypt" /\ input.arg.inst) =>
        LET a == input.arg
            empty == Len(a.requests) = 0
            absent == ~a.signature.present
            expired == a.signature.present /\ SigExpiredAt(a.signature, now)
        IN (empty \/ absent \/ expired) =>
              /\ result.kind = "err"
              /\ calls = <<>>
              /\ result.err.msg =
                    IF empty THEN "No decryption requests provided"
                    ELSE IF absent THEN "Decryption signature required"
                    ELSE "Decryption signature has expired"

\* an empty request list together with an expired signature
C3_Witness ==
    /\ input.op = "userDecrypt"
    /\ input.arg.inst
    /\ Len(input.arg.requests) = 0
    /\ input.arg.signature.present
    /\ SigExpiredAt(input.arg.signature, now)
    /\ result.err.msg = "No decryption requests provided"

\* C4: the all-zero handle is never sent to the remote instance, by
\* publicDecrypt, userDecrypt or batchDecrypt.
C4_ZeroHandleRejected ==
    \A i \in 1..Len(calls) :
        calls[i].fn \in {"userDecrypt", "publicDecrypt"} => ZeroHandle \notin Range(calls[i].args)

\* C5: every failure of a client method, of init and of reconnect is an
\* FhevmError with a code of the closed set.
C5_NoRawException ==
    (result.kind = "err" /\ result.op \in ClientOps \cup {"init", "reconnect"}) =>
        (isFhevmError(result.err) /\ result.err.code \in FhevmErrorCode)

\* a raw exception (the RangeError of BigInt) reached guardedOperation
C5_Witness ==
    /\ result.op = "encrypt"
    /\ result.kind = "err"
    /\ result.err.code = UNKNOWN_ERROR
    /\ result.err.cause[2] = "RangeError"

\* C6: an init() during which disconnect() was called, and whose creation call
\* then throws the abort error or returns an instance, rejects with
\* OPERATION_ABORTED and leaves the status 'error'.
C6_AbortedInit ==
    (result.op \in {"init", "autoInit"} /\ result.id # 0 /\ result.id \in aborted
        /\ result.via \in {"instance", "abort"}) =>
        /\ result.kind = "err"
        /\ result.err.code = OPERATION_ABORTED
        /\ status = "error"

\* C7: when disconnect() returns, the status is 'disconnected', the instance
\* is undefined, isReady is false and a 'disconnected' event has been emitted.
C7_DisconnectTearsDown ==
    result.op = "disconnect" =>
        /\ status = "disconnected"
        /\ instance = 0
        /\ ~isReady
        /\ \E i \in 1..Len(events) : events[i].ev = "disconnected"

\* disconnect() called while an initialization is in flight
C7_Witness ==
    /\ result.op = "disconnect"
    /\ \E i \in 1..Len(pending) : pending[i].stage = "create"
    /\ status = "disconnected"

\* C8: when reconnect() resolves, the instance is the one created by its
\* fresh initialization and the status is 'ready'.  Only reconnect() calls
\* after which nothing else was called on the client are looked at: no later
\* init() or reconnect() (result.id = nextId) and no later disconnect() (its
\* controller is still the current one).
C8_ReconnectRecreates ==
    (result.op = "reconnect" /\ result.kind = "ok"
        /\ result.id = nextId /\ abortController = result.id) =>
        (instance = result.id /\ status = "ready")

\* C9: with autoInit left on, init() called while the constructor's
\* initialization is still in flight does not reject.
C9_InitAfterCreate ==
    (autoInit /\ input.op = "init" /\ result.op = "init" /\ aborted = {}
        /\ \E i \in 1..Len(pending) :
               pending[i].caller = "auto" /\ pending[i].stage \in {"import", "create"}) =>
        result.kind # "err"

\* C10: isSignatureValid is true exactly while now < startTimestamp +
\* durationDays * 86400, so it is true at creation time when durationDays > 0,
\* and once it has returned false for a signature it never returns true again.
C10_SignatureValidity ==
    /\ [](sigResult.valid # "none" =>
            /\ (sigResult.valid = "valid") <=>
                   (sigResult.at < sig.startTimestamp + sig.durationDays * DaySeconds)
            /\ (sigResult.at = sig.startTimestamp /\ sig.durationDays > 0) =>
                   sigResult.valid = "valid")
    /\ [][(sigResult.valid = "invalid" /\ sig' = sig) => sigResult'.valid # "valid"]_vars

\* a signature of positive duration found expired at the very second of its expiry
C10_Witness ==
    /\ sig.present
    /\ sig.durationDays > 0
    /\ sigResult.valid = "invalid"
    /\ sigResult.at = sig.startTimestamp + sig.durationDays * DaySeconds

\* C11: getSignatureRemainingTime is max(0, startTimestamp + durationDays *
\* 86400 - now): never negative, positive exactly when isSignatureValid is
\* true at the same clock reading, and from one reading to a later one of the
\* same signature it does not grow.
C11_RemainingTime ==
    /\ [](sigRemaining.known =>
            LET left == sig.startTimestamp + sig.durationDays * DaySeconds - sigRemaining.at
            IN /\ sigRemaining.value >= 0
               /\ sigRemaining.value >= left
               /\ sigRemaining.value \in {0, left}
               /\ (sigRemaining.value > 0) <=> isSignatureValid(sig, sigRemaining.at))
    /\ [][(sigRemaining.known /\ sigRemaining'.known /\ sig' = sig) =>
              sigRemaining'.value <= sigRemaining.value]_vars

\* the remaining time read after the expiry of a signature of positive duration
C11_Witness ==
    /\ sig.present
    /\ sig.durationDays > 0
    /\ sigRemaining.known
    /\ sigRemaining.at > sig.startTimestamp + sig.durationDays * DaySeconds
    /\ sigRemaining.value = 0
    /\ sigResult.valid = "invalid"

\* C12: an encryptBatch call creates one builder of its own, appends its
\* values to it in order, each once and by the method of its type, calls
\* encrypt() on it at most once and only after all the appends, and appends
\* nothing after that; a call that succeeds has appended every value and
\* called encrypt() exactly once.
C12_BuilderOnce ==
    \A c \in 1..Len(encCalls) :
        (encCalls[c].op = "encryptBatch" /\ encCalls[c].builder # 0) =>
            LET ec == encCalls[c]
                b == builders[ec.builder]
            IN /\ \A d \in 1..Len(encCalls) : d # c => encCalls[d].builder # ec.builder
               /\ Len(b.added) <= Len(ec.values)
               /\ \A j \in 1..Len(b.added) :
                     /\ b.added[j].value = ec.values[j]
                     /\ b.added[j].method =
                           (IF ec.values[j].type = "ebool" THEN "addBool" ELSE "add32")
               /\ b.late = 0
               /\ b.finalized <= 1
               /\ b.finalized = 1 => Len(b.added) = Len(ec.values)
               /\ ec.kind = "ok" => (b.finalized = 1 /\ Len(b.added) = Len(ec.values))

\* a batch of two values of different types that has succeeded
C12_Witness ==
    \E c \in 1..Len(encCalls) :
        /\ encCalls[c].op = "encryptBatch"
        /\ encCalls[c].stage = "done"
        /\ encCalls[c].kind = "ok"
        /\ Len(encCalls[c].values) = 2
        /\ encCalls[c].values[1].type # encCalls[c].values[2].type
        /\ builders[encCalls[c].builder].finalized = 1

\* C13: an encryptBatch call that succeeds returns as many handles as it was
\* given values, the i-th handle being the one of the i-th value.
C13_HandlesInOrder ==
    \A c \in 1..Len(encCalls) :
        (encCalls[c].op = "encryptBatch" /\ encCalls[c].stage = "done"
            /\ encCalls[c].kind = "ok") =>
            /\ Len(encCalls[c].handles) = Len(encCalls[c].values)
            /\ \A i \in 1..Len(encCalls[c].values) :
                  encCalls[c].handles[i].of = encCalls[c].values[i]

\* a batch of two different values has returned its two handles
C13_Witness ==
    \E c \in 1..Len(encCalls) :
        /\ encCalls[c].op = "encryptBatch"
        /\ encCalls[c].kind = "ok"
        /\ Len(encCalls[c].values) = 2
        /\ Len(encCalls[c].handles) = 2
        /\ encCalls[c].handles[1].of # encCalls[c].handles[2].of

\* C14: two encrypt / encryptBatch calls never share a builder: a builder
\* holds values of one call only, and a call that succeeds returns handles of
\* its own builder, one per value of its own.
C14_IndependentCycles ==
    \A c \in 1..Len(encCalls) :
        encCalls[c].builder # 0 =>
            LET ec == encCalls[c]
                b == builders[ec.builder]
            IN /\ \A d \in 1..Len(encCalls) : d # c => encCalls[d].builder # ec.builder
               /\ \A j \in 1..Len(b.added) :
                     \E i \in 1..Len(ec.values) : b.added[j].value = ec.values[i]
               /\ (ec.stage = "done" /\ ec.kind = "ok") =>
                     /\ Len(ec.handles) = Len(ec.values)
                     /\ \A i \in 1..Len(ec.handles) :
                           /\ ec.handles[i].builder = ec.builder
                           /\ \E k \in 1..Len(ec.values) :
                                 ec.handles[i].of = ec.values[k]

\* the second call has returned its handles while the first still awaits its
\* encrypt()
C14_Witness ==
    /\ Len(encCalls) >= 2
    /\ encCalls[1].stage = "await"
    /\ encCalls[2].stage = "done"
    /\ encCalls[2].kind = "ok"
    /\ Len(encCalls[2].handles) >= 1
    /\ encCalls[1].builder # encCalls[2].builder

\* C15: encryptBatch given a list with an invalid value fails with an error
\* whose context.index is the (0-based) index of the first value that fails
\* validation and whose cause is the error that validation threw for it.
C15_OffendingIndex ==
    (input.op = "encryptBatch" /\ input.arg.inst) =>
        \A i \in 1..Len(input.arg.values) :
            (/\ validateEncryptionValue(input.arg.values[i]) # NoThrow
             /\ \A k \in 1..(i - 1) : validateEncryptionValue(input.arg.values[k]) = NoThrow) =>
                LET thrown == validateEncryptionValue(input.arg.values[i])
                IN /\ result.kind = "err"
                   /\ "index" \in result.err.ctx.keys
                   /\ result.err.ctx.index = i - 1
                   /\ result.err.ctx.value = input.arg.values[i]
                   /\ result.err.cause = <<thrown.cls, thrown.name, thrown.code, thrown.msg>>

\* a batch whose two values both fail validation, each its own way
C15_Witness ==
    /\ input.op = "encryptBatch"
    /\ input.arg.inst
    /\ Len(input.arg.values) = 2
    /\ validateEncryptionValue(input.arg.values[1]) # NoThrow
    /\ validateEncryptionValue(input.arg.values[2]) # NoThrow
    /\ validateEncryptionValue(input.arg.values[1]) # validateEncryptionValue(input.arg.values[2])
    /\ result.err.ctx.index = 0

\* C16: for an unsigned type of N bits and an integer v, given as a number or
\* as a bigint, validation succeeds exactly when 0 <= v <= 2^N - 1, that is
\* when v is not below zero and fits in N / 8 bytes.
C16_UintRange ==
    (/\ input.op \in {"validateEncryptionValue", "validateUintValue"}
     /\ input.arg.type \in UintTypes
     /\ input.arg.val.k \in {"number", "bigint"}
     /\ input.arg.val.isInt) =>
        ((result.kind = "ok") <=>
            /\ ~(input.arg.val.neg /\ input.arg.val.mag # <<>>)
            /\ Len(input.arg.val.mag) * 8 <= typeBits(input.arg.type))

\* the maximum of euint64 accepted
C16_Witness ==
    /\ input.op = "validateEncryptionValue"
    /\ input.arg.type = "euint64"
    /\ input.arg.val.mag = ones(8)
    /\ ~input.arg.val.neg
    /\ result.kind = "ok"

\* C17: an unsigned value above the maximum of its type fails validation with
\* code ENCRYPT_2002 and a context holding that maximum; a value of the wrong
\* runtime type fails with code ENCRYPT_2001.
C17_ValidationCodes ==
    input.op = "validateEncryptionValue" =>
        /\ (/\ input.arg.type \in UintTypes
            /\ input.arg.val.isInt
            /\ ~input.arg.val.neg
            /\ Len(input.arg.val.mag) * 8 > typeBits(input.arg.type)) =>
               /\ result.kind = "err"
               /\ result.err.code = INVALID_VALUE
               /\ "max" \in result.err.ctx.keys
               /\ result.err.ctx.max = ones(typeBits(input.arg.type) \div 8)
        /\ (\/ input.arg.type = "ebool" /\ input.arg.val.k \notin {"boolean", "null"}
            \/ input.arg.type \in {"eaddress"} \cup BytesTypes
                  /\ input.arg.val.k \notin {"string", "null"}) =>
               /\ result.kind = "err"
               /\ result.err.code = INVALID_INPUT_TYPE

\* C18: validateEncryptionValue returns or throws an FhevmError, whatever the
\* value, one that BigInt() cannot convert included.
C18_OnlyFhevmError ==
    input.op = "validateEncryptionValue" =>
        (result.kind = "ok" \/ isFhevmError(result.err))

\* C19: userDecrypt fails with code DECRYPT_3002 when the signature is
\* missing, DECRYPT_3003 when it is expired, and DECRYPT_3005 when the remote
\* side refuses with an ACL / permission message.
C19_DecryptionCodes ==
    (input.op = "userDecrypt" /\ input.arg.inst /\ Len(input.arg.requests) > 0) =>
        LET a == input.arg
            e == a.remote.err
        IN /\ ~a.signature.present => result.err.code = SIGNATURE_REQUIRED
           /\ (a.signature.present /\ SigExpiredAt(a.signature, now)) =>
                 result.err.code = SIGNATURE_EXPIRED
           /\ (/\ a.signature.present
               /\ ~SigExpiredAt(a.signature, now)
               /\ a.remote.failAt = "call"
               /\ e.name # "FhevmError"
               /\ ("ACL" \in e.has \/ "permission" \in e.has)) =>
                 result.err.code = ACL_PERMISSION_DENIED

\* C20: a failure of the remote userDecrypt is rethrown as it is when it is
\* an Error named FhevmError; otherwise it is wrapped, with the access-denied
\* message when its message has "ACL" or "permission", else with the
\* invalid-signature message when it has "signature", else with the generic
\* message.
C20_RemoteFailureClassified ==
    (/\ input.op = "userDecrypt" /\ input.arg.inst /\ Len(input.arg.requests) > 0
     /\ input.arg.signature.present /\ ~SigExpiredAt(input.arg.signature, now)
     /\ input.arg.remote.failAt = "call") =>
        LET e == input.arg.remote.err
        IN /\ result.kind = "err"
           /\ IF e.cls = "Error" /\ e.name = "FhevmError" THEN result.err = e
              ELSE /\ isFhevmError(result.err)
                   /\ result.err.code = DECRYPTION_FAILED
                   /\ result.err.cause = <<e.cls, e.name, e.code, e.msg>>
                   /\ result.err.msg =
                        IF "ACL" \in e.has \/ "permission" \in e.has
                        THEN "Access denied: You do not have permission to decrypt this value"
                        ELSE IF "signature" \in e.has THEN "Invalid or expired signature"
                        ELSE "Failed to decrypt value(s)"

\* a remote failure whose message has both "ACL" and "signature"
C20_Witness ==
    /\ input.op = "userDecrypt"
    /\ input.arg.remote.failAt = "call"
    /\ input.arg.remote.err.has = {"ACL", "signature"}
    /\ result.kind = "err"
    /\ result.err.msg = "Access denied: You do not have permission to decrypt this value"

\* the remote calls recorded, and the operations that make them
RemoteFns == {"encrypt", "userDecrypt", "publicDecrypt"}
RemoteAttempts == Cardinality({i \in 1..Len(calls) : calls[i].fn \in RemoteFns})
OrchOps ==
    {"encryptScalar", "encryptBatch", "encryptStruct", "userDecrypt", "batchDecrypt",
     "publicDecrypt"}

\* C21: the orchestrators never retry.  One call of encryptScalar, encryptBatch,
\* encryptStruct, userDecrypt, batchDecrypt or publicDecrypt (and so one call of
\* the client method around it) makes at most one remote encrypt() /
\* userDecrypt() / publicDecrypt() call, and when that call fails the caller
\* gets an error with no second attempt made.
C21_NoAutomaticRetry ==
    /\ RemoteAttempts <= 1
    /\ (/\ input.op \in OrchOps
        /\ input.arg.remote.failAt \in {"encrypt", "call"}
        /\ RemoteAttempts >= 1) =>
           /\ result.kind = "err"
           /\ RemoteAttempts = 1
           /\ calls[Len(calls)].fn \in RemoteFns

\* a batch of two values whose encrypt() call fails: one attempt, then the error
C21_Witness ==
    /\ input.op = "encryptBatch"
    /\ Len(input.arg.values) = 2
    /\ input.arg.remote.failAt = "encrypt"
    /\ RemoteAttempts = 1
    /\ result.kind = "err"
    /\ LET e == input.arg.remote.err
       IN result.err.cause = <<e.cls, e.name, e.code, e.msg>>

\* C22 (safety part): a retryOperation call with maxRetries = m invokes the
\* operation at most m + 1 times and stops at the first success, which it
\* returns; when all m + 1 invocations fail it rejects with the error of the
\* last one.
\* onRetry is called once before each re-attempt, with the retry numbers 1, 2, ...
\* and the error just caught, and not after the last failure.
C22_RetryInv ==
    LET r == retry
        m == r.maxRetries
        n == Len(r.results)
        invoked == n + (IF r.phase = "awaiting" THEN 1 ELSE 0)
        limit == IF m < 0 THEN 0 ELSE m + 1
    IN /\ invoked <= limit
       /\ \A i \in 1..n : r.results[i] => (i = n /\ r.phase = "done")
       /\ (r.phase = "done" /\ n > 0 /\ r.results[n]) => (r.outcome = "ok" /\ r.value = n)
       /\ (r.phase = "done" /\ ~(n > 0 /\ r.results[n])) =>
             (r.outcome = "err" /\ n = limit /\ r.error = n)
       /\ r.hasOnRetry =>
             /\ Len(r.onRetry) = (IF r.phase = "delay" THEN invoked ELSE
                                  IF invoked = 0 THEN 0 ELSE
                                  IF r.phase = "done" /\ r.outcome = "err" THEN n - 1
                                  ELSE invoked - 1)
             /\ \A i \in 1..Len(r.onRetry) : r.onRetry[i] = <<i, i>>
       /\ ~r.hasOnRetry => r.onRetry = <<>>

C23_GlobalPointer ==
    [][ /\ (globalClient' # globalClient) =>
              input'.op \in {"setGlobalClient", "clearGlobalClient"}
        /\ (input'.op = "setGlobalClient") =>
              /\ globalClient' = input'.arg
              /\ UNCHANGED <<status, instance, abortController, aborted, second>>
        /\ (input'.op = "getGlobalClient") =>
              /\ result'.out = <<globalClient>>
              /\ UNCHANGED <<globalClient, status, instance, second>>
        /\ (input'.op = "clearGlobalClient") =>
              /\ globalClient' = 0
              /\ (globalClient = 1) =>
                    (status' = "disconnected" /\ instance' = 0 /\ abortController' = 0)
              /\ (globalClient = 2) => second' = "disconnected"
      ]_vars

\* clearGlobalClient() has just disconnected the stored client, which was
\* initializing or ready, and the second client was never disconnected
C23_Witness ==
    /\ input.op = "clearGlobalClient"
    /\ globalClient = 0
    /\ status = "disconnected"
    /\ instance = 0
    /\ events = <<Event("statusChange", "disconnected"), Event("disconnected", "")>>
    /\ aborted # {}
    /\ second = "idle"
\* C24: the displayed text is made of code, message and suggestion only.  Two
\* failures that are equal but for their context bags (so but for the plaintext
\* value held there) are displayed as the same text.
C24_ContextNotDisplayed ==
    (fmt.done /\ [fmt.a EXCEPT !.ctx = fmt.b.ctx] = fmt.b) => fmt.outA = fmt.outB

\* the remote encrypt() failed for two different euint8 plaintexts
C24_Witness ==
    /\ fmt.done
    /\ isFhevmError(fmt.a)
    /\ fmt.a.msg = "Failed to encrypt value"
    /\ fmt.a.ctx.value.type = "euint8" /\ fmt.b.ctx.value.type = "euint8"
    /\ fmt.a.ctx.value # fmt.b.ctx.value
    /\ [fmt.a EXCEPT !.ctx = fmt.b.ctx] = fmt.b
    /\ fmt.outA = fmt.outB
    /\ fmt.outA = <<"[", ENCRYPTION_FAILED, "] ", "Failed to encrypt value",
                    "Suggestion: ", EncryptionSuggestion>>
\* call i was followed within less than delay; by nothing within delay; its runs
Superseded(i) ==
    i < Len(deb.calls) /\ deb.calls[i + 1].at - deb.calls[i].at < deb.delay
Quiet(i) ==
    \/ i < Len(deb.calls) /\ deb.calls[i + 1].at - deb.calls[i].at > deb.delay
    \/ i = Len(deb.calls) /\ deb.clock > deb.calls[i].at + deb.delay
RunsOf(i) == {k \in 1..Len(deb.runs) : deb.runs[k].call = i}

\* C25: debounce cancels previous calls.  A call followed by another call less
\* than `delay` later never runs the wrapped function; a call with no call in
\* the `delay` after it runs the wrapped function exactly once, `delay` after
\* the call and with its arguments, and never sooner.
C25_DebounceRunsLast ==
    \A i \in 1..Len(deb.calls) :
        /\ Superseded(i) => RunsOf(i) = {}
        /\ Quiet(i) => Cardinality(RunsOf(i)) = 1
        /\ \A k \in RunsOf(i) :
              /\ deb.runs[k].at = deb.calls[i].at + deb.delay
              /\ deb.runs[k].args = deb.calls[i].args

\* three calls one millisecond apart with delay 2: one run, of the last call
C25_Witness ==
    /\ deb.delay = 2
    /\ Len(deb.calls) = 3
    /\ deb.calls[2].at = deb.calls[1].at + 1
    /\ deb.calls[3].at = deb.calls[2].at + 1
    /\ deb.calls[1].args # deb.calls[3].args
    /\ Len(deb.runs) = 1
    /\ deb.runs[1].call = 3
    /\ deb.runs[1].at = deb.calls[3].at + 2
    /\ deb.clock > deb.runs[1].at
\* handler h is in the handlers hs of event e
Subscribed(hs, e, h) == \E i \in 1..Len(hs[e]) : hs[e][i] = h
Pairs == ClientEventTypes \X Handlers

\* C26: on(event, handler) subscribes the handler, the unsubscribe function it
\* returns and off(event, handler) remove it and nothing else, and no other
\* step changes the subscriptions; every emission of an event calls each
\* handler subscribed to it at that time exactly once and no other handler.
C26_HandlersCalledWhileSubscribed ==
    [][ LET e == input'.arg[1]
            h == input'.arg[2]
            others(p) == Subscribed(eventHandlers', p[1], p[2]) = Subscribed(eventHandlers, p[1], p[2])
        IN /\ (input'.op = "on") =>
                 /\ Subscribed(eventHandlers', e, h)
                 /\ \A p \in Pairs \ {<<e, h>>} : others(p)
           /\ (input'.op \in {"off", "unsubscribe"}) =>
                 /\ ~Subscribed(eventHandlers', e, h)
                 /\ \A p \in Pairs \ {<<e, h>>} : others(p)
           /\ (input'.op \notin {"on", "off", "unsubscribe"}) =>
                 /\ \A p \in Pairs : others(p)
                 /\ \A k \in 1..Len(events') : \A x \in Handlers :
                        Cardinality({i \in 1..Len(emit(events[k])') :
                                        emit(events[k])'[i] = <<x, events'[k].ev, events'[k].data>>})
                          = (IF Subscribed(eventHandlers, events'[k].ev, x) THEN 1 ELSE 0)
      ]_vars

\* h1 has been unsubscribed from statusChange, h2 has not, and the status
\* changes: the emission calls h2 only
C26_Witness ==
    /\ <<"statusChange", "h1">> \in unsubscribes
    /\ <<"statusChange", "h2">> \in unsubscribes
    /\ eventHandlers["statusChange"] = <<"h2">>
    /\ Len(events) > 0
    /\ events[1].ev = "statusChange"
    /\ emit(events[1]) = <<<<"h2", "statusChange", events[1].data>>>>
\* C27: with enabled = true the hook starts a decryption when the component
\* mounts and when requests or signature change, and never merely because the
\* previous decryption has finished.
C27_AutoDecryptOnChangeOnly ==
    /\ \A i \in 1..Len(hook.started) : hook.started[i].changed # {"isDecrypting"}
    /\ \A i, j \in 1..Len(hook.started) :
           hook.started[i].params = hook.started[j].params => i = j
\* key k was set in cache c more than ttl milliseconds ago; is in it; c is full
Older(c, k) == c.clock - c.entries[keyIndex(c.entries, k)].timestamp > c.ttl
Present(c, k) == keyIndex(c.entries, k) # 0
Full(c) == Len(c.entries) >= c.maxSize

\* C28: set() on a full cache, for a key that is not in it, removes exactly one
\* entry, and that entry is one whose last access (set or get) is the oldest.
C28_EvictsLeastRecentlyUsed ==
    [][ (cache'.op = "set" /\ Full(cache) /\ ~Present(cache, cache'.key)) =>
            \E i \in 1..Len(cache.entries) :
                /\ \A j \in 1..Len(cache.entries) :
                       cache.entries[i].access <= cache.entries[j].access
                /\ ~Present(cache', cache.entries[i].key)
                /\ \A j \in 1..Len(cache.entries) :
                       j # i => Present(cache', cache.entries[j].key)
      ]_vars

\* C29: get and has return the value (true) of a key set at most ttl
\* milliseconds ago and leave it in the cache; for a key set longer ago they
\* answer undefined (false) and remove it; cleanup removes the entries set more
\* than ttl milliseconds ago, keeps the others and returns how many it removed.
C29_TtlHonoured ==
    [][ LET k == cache'.key
        IN /\ (cache'.op \in {"get", "has"}) =>
                 IF Present(cache, k) /\ ~Older(cache, k)
                 THEN /\ cache'.ret = IF cache'.op = "get"
                                      THEN cache.entries[keyIndex(cache.entries, k)].value
                                      ELSE TRUE
                      /\ Present(cache', k)
                      /\ Len(cache'.entries) = Len(cache.entries)
                 ELSE /\ cache'.ret = IF cache'.op = "get" THEN Undefined ELSE FALSE
                      /\ ~Present(cache', k)
                      /\ \A x \in CacheKeys \ {k} : Present(cache', x) = Present(cache, x)
           /\ (cache'.op = "cleanup") =>
                 /\ \A x \in CacheKeys :
                        Present(cache', x) = (Present(cache, x) /\ ~Older(cache, x))
                 /\ cache'.ret = Cardinality({x \in CacheKeys : Present(cache, x) /\ Older(cache, x)})
      ]_vars

\* cleanup has removed one entry and kept one that is exactly ttl old
C29_Witness ==
    /\ cache.op = "cleanup"
    /\ cache.ret = 1
    /\ Len(cache.entries) = 1
    /\ cache.clock - cache.entries[1].timestamp = cache.ttl

\* C30: the cache never holds more than maxSize entries, and set() of a key
\* that is present in a full cache keeps every key and renews that key's entry.
C30_SizeBoundedAndReplaceInPlace ==
    /\ [](cache.made => Len(cache.entries) <= cache.maxSize)
    /\ [][ (cache'.op = "set" /\ Full(cache) /\ Present(cache, cache'.key)) =>
               /\ \A x \in CacheKeys : Present(cache', x) = Present(cache, x)
               /\ cache'.entries[keyIndex(cache'.entries, cache'.key)].timestamp = cache.clock
         ]_vars
C32_DisconnectedStaysDown ==
    abortController = 0 => (status # "ready" /\ instance = 0)
\* the initializations whose import or creation call has not settled
InFlight == {k \in 1..Len(pending) : pending[k].stage \in {"import", "create"}}

\* C33: at most one initialization is in flight at any time, and no step
\* installs the instance of an initialization while a reconnect() called
\* after that initialization began is under way.
C33_OneInitNoStaleInstance ==
    /\ [](Cardinality(InFlight) <= 1)
    /\ [][ (instance' # instance /\ instance' # 0) =>
               ~\E k \in 1..Len(pending) :
                    pending[k].caller = "reconnect" /\ pending[k].id > instance'
         ]_vars
\* C34: whenever the status is 'ready' the instance is defined, so isReady
\* holds exactly when the status is 'ready'.
C34_ReadyHasInstance ==
    /\ status = "ready" => instance # 0
    /\ isReady <=> status = "ready"

\* ready again through a second initialization, started by reconnect()
C34_Witness ==
    /\ status = "ready" /\ instance = 2 /\ isReady
    /\ result.op = "reconnect" /\ result.kind = "ok"
    /\ nextId = 2 /\ pending = <<>>
\* how many of the events evs are ev with data d
CountEvents(evs, ev, d) ==
    Cardinality({i \in 1..Len(evs) : evs[i].ev = ev /\ (d = "" \/ evs[i].data = d)})

\* C35: the step in which an initialization fails, whoever started it, emits
\* one 'error' event and one statusChange to 'error', and no other step emits
\* an 'error' event or a statusChange to 'error'.
C35_OneErrorPerFailedInit ==
    [][ LET failed == Cardinality(InFlight') < Cardinality(InFlight) /\ status' = "error"
        IN /\ CountEvents(events', "error", "") = IF failed THEN 1 ELSE 0
           /\ CountEvents(events', "statusChange", "error") = IF failed THEN 1 ELSE 0
      ]_vars
\* the batches that contain item i, as <<batch, position>>
PlacesOf(i) ==
    {<<b, p>> \in (1..Len(bq.batches)) \X (1..MaxQueueAdds) :
        p <= Len(bq.batches[b].items) /\ bq.batches[b].items[p] = i}
\* xs is in arrival order and without repetition
Ascending(xs) == \A p, r \in 1..Len(xs) : p < r => xs[p] < xs[r]

\* C36: every item added is waiting in the queue or was rejected by clear(),
\* or else has been handed to the batch function in exactly one batch and at
\* one position; batches and the queue keep arrival order; no batch is larger
\* than the maximum; a resolved item holds the result at its own position in
\* its own batch.
C36_BatchesPartitionItems ==
    /\ Ascending(bq.queue)
    /\ \A b \in 1..Len(bq.batches) :
          /\ Ascending(bq.batches[b].items)
          /\ Len(bq.batches[b].items) \in 1..bq.maxSize
    /\ \A i \in 1..Len(bq.items) :
          LET it == bq.items[i]
              waiting == \E p \in 1..Len(bq.queue) : bq.queue[p] = i
          IN /\ waiting <=> it.state = "queued"
             /\ IF it.state = "queued" \/ (it.state = "rejected" /\ it.batch = 0)
                THEN PlacesOf(i) = {}
                ELSE PlacesOf(i) = {<<it.batch, it.pos>>}
             /\ it.state = "resolved" => it.value = <<it.batch, it.pos>>
             /\ it.state \in {"resolved", "rejected"} /\ it.batch # 0
                  => bq.batches[it.batch].stage = "done"

\* two items flushed together when the queue was full and resolved, a third
\* flushed alone by the timer
C36_Witness ==
    /\ bq.maxSize = 2
    /\ Len(bq.batches) = 2
    /\ bq.batches[1].items = <<1, 2>> /\ bq.batches[1].via = "size"
    /\ bq.batches[2].items = <<3>> /\ bq.batches[2].via = "timer"
    /\ bq.items[1].state = "resolved" /\ bq.items[1].value = <<1, 1>>
    /\ bq.items[2].state = "resolved" /\ bq.items[2].value = <<1, 2>>
    /\ bq.items[3].state = "inflight"

\* every batch was flushed because the queue was full, or by a timer one delay
\* after the add of its last item; after clear() nothing is waiting
QueueTiming ==
    /\ \A b \in 1..Len(bq.batches) :
          LET B == bq.batches[b]
          IN IF B.via = "size" THEN Len(B.items) >= bq.maxSize
             ELSE B.at = bq.items[B.items[Len(B.items)]].at + bq.delay
    /\ bq.op = "clear" =>
          bq.queue = <<>> /\ \A i \in 1..Len(bq.items) : bq.items[i].state # "queued"
\* the promise of every add() is settled in the end
QueueSettles ==
    \A i \in 1..MaxQueueAdds :
        (Len(bq.items) >= i)
            ~> (Len(bq.items) >= i /\ bq.items[i].state \in {"resolved", "rejected"})

\* C37: every promise returned by add() settles in the end, given that timers
\* fire and batch functions settle; an item is flushed when the queue is full
\* or one delay after the last add; clear() rejects every item still waiting.
C37_QueuePromisesSettle == [](QueueTiming) /\ QueueSettles
\* C38: the promise returned by every call of a debounced function is resolved
\* or rejected in the end, given that timers fire and the wrapped function
\* settles.
C38_DebouncePromisesSettle ==
    \A i \in 1..MaxDebCalls :
        (Len(deb.calls) >= i)
            ~> (Len(deb.calls) >= i /\ deb.calls[i].promise \in {"resolved", "rejected"})
====
